---- MODULE Spec2Model ----
(***************************************************************************)
(* Model of the job_analyzer acquisition-and-normalisation pipeline:       *)
(*   database.py       raw tables merojob_raw / kumari_raw, insert-or-     *)
(*                     ignore persistence keyed by (id, scraped_at)        *)
(*   clean_data.py     clean_and_merge: normalise, concat, title gate,     *)
(*                     drop_duplicates, salary cap, replace jobs_clean     *)
(*   scrape_kumari.py  card pass, duplicate-id merge, detail pass,         *)
(*                     fetch_with_retry                                    *)
(*   merojob_scraper.py  scrape_jobs: pagination, accumulate, save         *)
(*   scheduler.py      full_pipeline: the three stages and their handlers  *)
(*                                                                         *)
(* Text is modelled as a sequence of one-character strings so that strip,  *)
(* title-casing, prefixing and digit parsing are computed, not assumed.    *)
(* SQL NULL / pandas NaN in a text column is the one-element sequence      *)
(* NULL; NaN in a numeric column is the number NaN (-1, salaries parsed    *)
(* from digit runs are never negative).                                    *)
(* Columns no modelled operation reads (categories, deadline, vacancies,   *)
(* currency, skills, job_url, scrape_date) are left out of the rows.       *)
(***************************************************************************)
EXTENDS Integers, Sequences, FiniteSets, TLC

VARIABLES
    merojob_raw,   \* table merojob_raw, rows in rowid (insertion) order
    kumari_raw,    \* table kumari_raw, rows in rowid (insertion) order
    jobs_clean,    \* table jobs_clean: whether it exists, and its rows in order
    now,           \* the wall clock read by datetime.now()
    last,          \* what the last completed database/cleaning call did
    kpc,           \* position inside scrape_kumari_jobs
    jobs_map,      \* scrape_kumari_jobs: dict job_id -> partial record, in insertion order
    ncards,        \* scrape_kumari_jobs: cards of the page consumed so far
    didx,          \* scrape_kumari_jobs: position of the detail loop in jobs_map
    merged,        \* scrape_kumari_jobs: the last card's (existing, incoming, result) at the dict update
    mpc,           \* position inside scrape_jobs
    url,           \* scrape_jobs: the page to request next (0: None / empty)
    all_jobs,      \* scrape_jobs: the records accumulated so far
    fetched,       \* scrape_jobs: the pages requested so far, in order
    pipeline,      \* full_pipeline: position, stages invoked, and the three counts
    fetch,         \* fetch_with_retry: the loop's position, requests issued, sleeps, result
    call           \* the last application of a normaliser function: name, argument, result

kumariVars == <<kpc, jobs_map, ncards, didx, merged>>

meroVars == <<mpc, url, all_jobs, fetched>>

vars == <<merojob_raw, kumari_raw, jobs_clean, now, last, kumariVars, meroVars, pipeline, fetch, call>>

\* a Python local that no statement has assigned yet
Unbound == -1

\* url = None, or the empty string: "while url" ends
NoUrl == 0

(***************************************************************************)
(* Bounds of the model                                                     *)
(***************************************************************************)
MaxRows  == 3   \* raw rows over both tables
MaxBatch == 2   \* records handed to one save_* call
MaxTs    == 2   \* distinct clock readings
MaxPages == 3   \* page requests of one scrape_jobs run
MaxPad   == 1   \* blanks around a raw text value
MaxCards == 3   \* cards on the listing page

(***************************************************************************)
(* Python / pandas text primitives                                         *)
(***************************************************************************)
NULL == <<"NULL">>
NaN  == -1

WS == {" ", "\t", "\n"}

LowerCase == <<"a","b","c","d","e","f","g","h","i","j","k","l","m",
               "n","o","p","q","r","s","t","u","v","w","x","y","z">>
UpperCase == <<"A","B","C","D","E","F","G","H","I","J","K","L","M",
               "N","O","P","Q","R","S","T","U","V","W","X","Y","Z">>
DigitChars == <<"0","1","2","3","4","5","6","7","8","9">>

IsLower(c) == \E i \in 1..26 : LowerCase[i] = c
IsUpper(c) == \E i \in 1..26 : UpperCase[i] = c
IsCased(c) == IsLower(c) \/ IsUpper(c)
IsDigit(c) == \E i \in 1..10 : DigitChars[i] = c

ToUpper(c) == IF IsLower(c) THEN UpperCase[CHOOSE i \in 1..26 : LowerCase[i] = c] ELSE c
ToLower(c) == IF IsUpper(c) THEN LowerCase[CHOOSE i \in 1..26 : UpperCase[i] = c] ELSE c

DigitVal(c) == (CHOOSE i \in 1..10 : DigitChars[i] = c) - 1

RECURSIVE LStrip(_)
LStrip(s) == IF s # <<>> /\ Head(s) \in WS THEN LStrip(Tail(s)) ELSE s

RECURSIVE RStrip(_)
RStrip(s) == IF s # <<>> /\ s[Len(s)] \in WS THEN RStrip(SubSeq(s, 1, Len(s) - 1)) ELSE s

\* str.strip()
Strip(s) == RStrip(LStrip(s))

\* str.title(): a cased character is upper-cased when the previous character
\* is not cased and lower-cased when it is
RECURSIVE TitleFrom(_, _)
TitleFrom(s, prevCased) ==
    IF s = <<>> THEN <<>>
    ELSE LET c == Head(s)
         IN  <<IF IsCased(c) THEN (IF prevCased THEN ToLower(c) ELSE ToUpper(c)) ELSE c>>
             \o TitleFrom(Tail(s), IsCased(c))

Title(s) == TitleFrom(s, FALSE)

\* sub in text
Contains(text, sub) ==
    \E i \in 1..(Len(text) - Len(sub) + 1) : SubSeq(text, i, i + Len(sub) - 1) = sub

\* str.lower()
RECURSIVE Lower(_)
Lower(s) == IF s = <<>> THEN <<>> ELSE <<ToLower(Head(s))>> \o Lower(Tail(s))

\* Series.str.strip() / Series.str.title(): a missing value stays missing
StrStrip(v) == IF v = NULL THEN NULL ELSE Strip(v)
StrTitle(v) == IF v = NULL THEN NULL ELSE Title(v)

\* Series.fillna(d)
FillNa(v, d) == IF v = NULL THEN d ELSE v

\* str(n) of a non-negative int
RECURSIVE IntToStr(_)
IntToStr(n) == IF n < 10 THEN <<DigitChars[n + 1]>>
               ELSE IntToStr(n \div 10) \o <<DigitChars[(n % 10) + 1]>>

\* the number written by a sequence of decimal digits
RECURSIVE DigitsValue(_)
DigitsValue(s) == IF s = <<>> THEN 0
                  ELSE DigitsValue(SubSeq(s, 1, Len(s) - 1)) * 10 + DigitVal(s[Len(s)])

AllDigits(s) == \A i \in 1..Len(s) : IsDigit(s[i])

\* Python values that are not text: an int, None, or a str
PyInt(n)  == [t |-> "int", v |-> n]
PyNone    == [t |-> "none", v |-> 0]
PyStr(s)  == [t |-> "str", v |-> s]

\* str(x)
Str(x) == CASE x.t = "int"  -> IntToStr(x.v)
            [] x.t = "none" -> <<"N","o","n","e">>
            [] x.t = "str"  -> x.v

sNA             == <<"N","/","A">>
sUnknownCompany == <<"U","n","k","n","o","w","n"," ","C","o","m","p","a","n","y">>
sMjPrefix       == <<"m","j","_">>
sKjPrefix       == <<"k","j","_">>


(***************************************************************************)
(* database.py: the raw tables                                             *)
(***************************************************************************)
\* jobs_clean before its first write: the table does not exist
NoTable == [exists |-> FALSE, rows |-> <<>>]

\* jobs_clean once written
Table(rows) == [exists |-> TRUE, rows |-> rows]

\* dict.get(key, default)
Get(job, k, d) == IF k \in DOMAIN job THEN job[k] ELSE d

\* the primary keys: PRIMARY KEY (id, scraped_at) / PRIMARY KEY (job_id, scraped_at)
MeroKey(r)   == <<r.id, r.scraped_at>>
KumariKey(r) == <<r.job_id, r.scraped_at>>

\* the 14-tuple bound to INSERT ... INTO merojob_raw (modelled columns)
MeroRow(job, scraped_at) ==
    [ id         |-> Str(Get(job, "id", PyStr(<<>>))),
      title      |-> Get(job, "title", sNA),
      company    |-> Get(job, "company", sNA),
      salary_min |-> Str(Get(job, "salary_min", PyStr(sNA))),
      salary_max |-> Str(Get(job, "salary_max", PyStr(sNA))),
      location   |-> Get(job, "location", sNA),
      job_level  |-> Get(job, "job_level", sNA),
      scraped_at |-> scraped_at ]

\* the 10-tuple bound to INSERT ... INTO kumari_raw
KumariRow(job_id, job, scraped_at) ==
    [ job_id     |-> job_id,
      job_title  |-> Get(job, "Job Title", sNA),
      company    |-> Get(job, "Company", sNA),
      link       |-> Get(job, "Link", sNA),
      salary     |-> Get(job, "Salary", sNA),
      experience |-> Get(job, "Experience", sNA),
      industry   |-> Get(job, "Industry", sNA),
      job_level  |-> Get(job, "Job Level", sNA),
      education  |-> Get(job, "Education", sNA),
      scraped_at |-> scraped_at ]

\* INSERT OR REPLACE: a colliding row replaces the stored one (at the end of
\* the rowid order)
InsertOrReplaceMero(table, row) ==
    SelectSeq(table, LAMBDA r : MeroKey(r) # MeroKey(row)) \o <<row>>

\* INSERT OR IGNORE INTO merojob_raw: a row whose primary key is stored is skipped
InsertOrIgnoreMero(table, row) ==
    IF \E i \in 1..Len(table) : MeroKey(table[i]) = MeroKey(row)
    THEN table
    ELSE Append(table, row)

InsertOrReplaceKumari(table, row) ==
    SelectSeq(table, LAMBDA r : KumariKey(r) # KumariKey(row)) \o <<row>>

\* INSERT OR IGNORE INTO kumari_raw
InsertOrIgnoreKumari(table, row) ==
    IF \E i \in 1..Len(table) : KumariKey(table[i]) = KumariKey(row)
    THEN table
    ELSE Append(table, row)

\* the loop of save_merojob_data over jobs_list: the table after it
RECURSIVE MeroInsertAll(_, _, _)
MeroInsertAll(table, jobs_list, scraped_at) ==
    IF jobs_list = <<>> THEN table
    ELSE MeroInsertAll(InsertOrIgnoreMero(table, MeroRow(Head(jobs_list), scraped_at)),
                       Tail(jobs_list), scraped_at)

\* the loop of save_kumari_data over jobs_dict.items(): the table after it
RECURSIVE KumariInsertAll(_, _, _)
KumariInsertAll(table, items, scraped_at) ==
    IF items = <<>> THEN table
    ELSE KumariInsertAll(
             InsertOrIgnoreKumari(table, KumariRow(Head(items).job_id, Head(items).data, scraped_at)),
             Tail(items), scraped_at)

\* datetime.now(): the wall clock does not go back, and two readings can agree
ClockReadings == {t \in {now, now + 1} : t <= MaxTs}

\* save_merojob_data(jobs_list); saved counts the executes that did not raise
save_merojob_data(jobs_list, scraped_at) ==
    /\ merojob_raw' = MeroInsertAll(merojob_raw, jobs_list, scraped_at)
    /\ now' = scraped_at
    /\ last' = [op |-> "save_merojob_data", saved |-> Len(jobs_list),
                rows_before |-> Len(merojob_raw)]
    /\ UNCHANGED <<kumari_raw, jobs_clean>>

\* save_kumari_data(jobs_dict)
save_kumari_data(items, scraped_at) ==
    /\ kumari_raw' = KumariInsertAll(kumari_raw, items, scraped_at)
    /\ now' = scraped_at
    /\ last' = [op |-> "save_kumari_data", saved |-> Len(items),
                rows_before |-> Len(kumari_raw)]
    /\ UNCHANGED <<merojob_raw, jobs_clean>>


(***************************************************************************)
(* clean_data.py: normalisation and reconciliation                         *)
(***************************************************************************)
SalaryCap == 10000000

\* re.findall(r'[\d,]+', s): the maximal runs of digits and commas, in order
RECURSIVE FindAllRuns(_, _)
FindAllRuns(s, cur) ==
    LET flush == IF cur = <<>> THEN <<>> ELSE <<cur>>
    IN  IF s = <<>> THEN flush
        ELSE IF IsDigit(Head(s)) \/ Head(s) = ","
             THEN FindAllRuns(Tail(s), Append(cur, Head(s)))
             ELSE flush \o FindAllRuns(Tail(s), <<>>)

\* run.replace(',', '')
RemoveCommas(run) == SelectSeq(run, LAMBDA c : c # ",")

\* float(text) inside try/except ValueError: the number, or None (NaN in the column)
FloatOrNone(text) == IF text # <<>> /\ AllDigits(text) THEN DigitsValue(text) ELSE NaN

extract_salary_min(salary_str) ==
    IF salary_str = NULL THEN NaN
    ELSE LET nums == FindAllRuns(salary_str, <<>>)
         IN  IF Len(nums) > 0 THEN FloatOrNone(RemoveCommas(nums[1])) ELSE NaN

\* a maximum read from the first run instead of the second
extract_salary_max_first(salary_str) ==
    IF salary_str = NULL THEN NaN
    ELSE LET nums == FindAllRuns(salary_str, <<>>)
         IN  IF Len(nums) > 0 THEN FloatOrNone(RemoveCommas(nums[1])) ELSE NaN

extract_salary_max(salary_str) ==
    IF salary_str = NULL THEN NaN
    ELSE LET nums == FindAllRuns(salary_str, <<>>)
         IN  IF Len(nums) > 1 THEN FloatOrNone(RemoveCommas(nums[2])) ELSE NaN

\* pd.to_numeric(column, errors='coerce') on one stored text value (the values
\* the model stores are digit strings, "None" and "N/A")
ToNumeric(text) == IF text # NULL /\ text # <<>> /\ AllDigits(text) THEN DigitsValue(text) ELSE NaN

sUnknown      == <<"U","n","k","n","o","w","n">>
sKathmandu    == <<"K","a","t","h","m","a","n","d","u">>
sPokhara      == <<"P","o","k","h","a","r","a">>
sBhaktapur    == <<"B","h","a","k","t","a","p","u","r">>
sLalitpur     == <<"L","a","l","i","t","p","u","r">>
sBirgunj      == <<"B","i","r","g","u","n","j">>
sButwal       == <<"B","u","t","w","a","l">>
sNaSlash      == <<"n","/","a">>
sNa           == <<"n","a">>
sNotSpecifiedLower == <<"n","o","t"," ","s","p","e","c","i","f","i","e","d">>
sNotSpecified == <<"N","o","t"," ","S","p","e","c","i","f","i","e","d">>
sEntryLevel   == <<"E","n","t","r","y"," ","L","e","v","e","l">>
sMidLevel     == <<"M","i","d"," ","L","e","v","e","l">>
sSeniorLevel  == <<"S","e","n","i","o","r"," ","L","e","v","e","l">>
sManagement   == <<"M","a","n","a","g","e","m","e","n","t">>

\* the dict "mapping" of clean_location
LocationMapping ==
    (<<"K","T","M">> :> sKathmandu) @@
    (<<"K","t","m">> :> sKathmandu) @@
    (<<"k","t","m">> :> sKathmandu) @@
    (<<"K","a","t","h","m","a","n","d","u"," ","V","a","l","l","e","y">> :> sKathmandu) @@
    (<<"P","K","R">> :> sPokhara) @@
    (<<"P","K","R",".">> :> sPokhara) @@
    (<<"P","k","r">> :> sPokhara) @@
    (<<"B","K","T">> :> sBhaktapur) @@
    (<<"B","k","t">> :> sBhaktapur) @@
    (<<"L","L","T">> :> sLalitpur) @@
    (<<"L","l","t">> :> sLalitpur) @@
    (<<"P","a","t","a","n">> :> sLalitpur) @@
    (<<"B","R","T">> :> sBirgunj) @@
    (<<"B","T","W">> :> sButwal)

\* a lookup that ignores the case of the key
LocationLookupAnyCase(loc) ==
    IF \E k \in DOMAIN LocationMapping : Lower(k) = Lower(loc)
    THEN LocationMapping[CHOOSE k \in DOMAIN LocationMapping : Lower(k) = Lower(loc)]
    ELSE loc

\* mapping.get(loc, loc)
LocationLookup(loc) == Get(LocationMapping, loc, loc)

\* clean_location(loc); a value that is not a str (None, NaN) is NULL here
clean_location(loc) ==
    IF loc = NULL THEN sUnknown
    ELSE LET stripped == Strip(loc)
         IN  IF stripped = <<>> \/ Lower(stripped) \in {sNaSlash, sNa, <<>>}
             THEN sUnknown
             ELSE LocationLookup(stripped)

\* the keyword lists of standardize_job_level
EntryWords ==
    { <<"e","n","t","r","y">>,
      <<"j","u","n","i","o","r">>,
      <<"f","r","e","s","h","e","r">>,
      <<"f","r","e","s","h">>,
      <<"g","r","a","d","u","a","t","e">> }

MidWords ==
    { <<"m","i","d">>,
      <<"i","n","t","e","r","m","e","d","i","a","t","e">>,
      <<"a","s","s","o","c","i","a","t","e">> }

SeniorWords ==
    { <<"s","e","n","i","o","r">>,
      <<"s","r",".">>,
      <<"l","e","a","d">>,
      <<"p","r","i","n","c","i","p","a","l">> }

ManagementWords ==
    { <<"m","a","n","a","g","e","r">>,
      <<"h","e","a","d">>,
      <<"d","i","r","e","c","t","o","r">>,
      <<"v","p">>,
      <<"c","h","i","e","f">>,
      <<"c","e","o">>,
      <<"c","t","o">> }

\* any(w in level_lower for w in words)
AnyIn(words, level_lower) == \E w \in words : Contains(level_lower, w)

NoLevel == <<>>

\* a cascade that tests the senior keywords before the entry and mid ones
LevelByKeywordSeniorFirst(level_lower) ==
    IF AnyIn(SeniorWords, level_lower) THEN sSeniorLevel
    ELSE IF AnyIn(EntryWords, level_lower) THEN sEntryLevel
    ELSE IF AnyIn(MidWords, level_lower) THEN sMidLevel
    ELSE IF AnyIn(ManagementWords, level_lower) THEN sManagement
    ELSE NoLevel

\* lines 82-89: the if/elif cascade over the four keyword lists; NoLevel
\* when no branch is taken
LevelByKeyword(level_lower) ==
    IF AnyIn(EntryWords, level_lower) THEN sEntryLevel
    ELSE IF AnyIn(MidWords, level_lower) THEN sMidLevel
    ELSE IF AnyIn(SeniorWords, level_lower) THEN sSeniorLevel
    ELSE IF AnyIn(ManagementWords, level_lower) THEN sManagement
    ELSE NoLevel

\* standardize_job_level(level_str); level_lower is not stripped
standardize_job_level(level_str) ==
    IF level_str = NULL THEN sNotSpecified
    ELSE LET level_lower == Lower(level_str)
             by_keyword  == LevelByKeyword(level_lower)
         IN  IF by_keyword # NoLevel THEN by_keyword
             ELSE IF level_lower \in {sNaSlash, sNa, <<>>, sNotSpecifiedLower}
             THEN sNotSpecified
             ELSE Title(Strip(level_str))

\* frame['source'] = value as the FIRST assignment into pd.DataFrame(): the
\* frame has no rows yet, so the scalar makes a column of length 0; the next
\* assignment (a Series) gives the frame its index and reindexes the existing
\* column, filling every row with NaN.  The value is lost.
FirstScalarColumn(value) == NULL

sMerojob   == <<"m","e","r","o","j","o","b">>
sKumarijob == <<"k","u","m","a","r","i","j","o","b">>

\* one row of mero_clean
MeroClean(r) ==
    [ source     |-> FirstScalarColumn(sMerojob),
      job_id     |-> sMjPrefix \o r.id,
      title      |-> StrTitle(StrStrip(r.title)),
      company    |-> FillNa(StrStrip(r.company), sUnknownCompany),
      location   |-> clean_location(r.location),
      job_level  |-> standardize_job_level(r.job_level),
      salary_min |-> ToNumeric(r.salary_min),
      salary_max |-> ToNumeric(r.salary_max),
      experience |-> sNA ]

\* one row of kumari_clean
KumariClean(r) ==
    [ source     |-> FirstScalarColumn(sKumarijob),
      job_id     |-> sKjPrefix \o r.job_id,
      title      |-> StrTitle(StrStrip(r.job_title)),
      company    |-> FillNa(StrStrip(r.company), sUnknownCompany),
      location   |-> sKathmandu,
      job_level  |-> standardize_job_level(r.job_level),
      salary_min |-> extract_salary_min(r.salary),
      salary_max |-> extract_salary_max(r.salary),
      experience |-> FillNa(r.experience, sNA) ]

\* pd.concat(cleaned_frames): the MeroJob frame, then the KumariJob frame
ConcatFrames(mero, kumari) ==
    [i \in 1..Len(mero) |-> MeroClean(mero[i])] \o [i \in 1..Len(kumari) |-> KumariClean(kumari[i])]

\* step 1: df['title'].notna() & (df['title'].str.strip() != '') & (df['title'] != 'N/A')
TitleKept(row) == row.title # NULL /\ Strip(row.title) # <<>> /\ row.title # sNA

TitleGate(df) == SelectSeq(df, TitleKept)

DupKey(row) == <<row.title, row.company, row.source>>

\* step 2: drop_duplicates(subset=['title','company','source']), keep='first';
\* missing values compare equal to each other
RECURSIVE DropDuplicatesFrom(_, _)
DropDuplicatesFrom(df, seen) ==
    IF df = <<>> THEN <<>>
    ELSE IF DupKey(Head(df)) \in seen
         THEN DropDuplicatesFrom(Tail(df), seen)
         ELSE <<Head(df)>> \o DropDuplicatesFrom(Tail(df), seen \cup {DupKey(Head(df))})

DropDuplicates(df) == DropDuplicatesFrom(df, {})

\* a cap that also nulls a value equal to the threshold
CapValueInclusive(x) == IF x # NaN /\ x >= SalaryCap THEN NaN ELSE x

\* step 3: df.loc[df[col] > 10_000_000, col] = None (NaN > x is False)
CapValue(x) == IF x # NaN /\ x > SalaryCap THEN NaN ELSE x

CapRow(row) == [row EXCEPT !.salary_min = CapValue(row.salary_min),
                           !.salary_max = CapValue(row.salary_max)]

CapOutliers(df) == [i \in 1..Len(df) |-> CapRow(df[i])]

\* the frame clean_and_merge writes for the given raw tables
CleanFrame(mero, kumari) == CapOutliers(DropDuplicates(TitleGate(ConcatFrames(mero, kumari))))

\* to_sql with if_exists='append'
ToSqlAppend(old, df) == Table(old.rows \o df)

\* df.to_sql('jobs_clean', if_exists='replace'): the table after the write
ToSqlReplace(old, df) == Table(df)

\* a reconcile that goes on to pd.concat whatever cleaned_frames holds
NoFramesUnchecked(mero, kumari) == FALSE

\* "if not cleaned_frames": a frame is appended for a raw table with a row
NoFrames(mero, kumari) == Len(mero) = 0 /\ Len(kumari) = 0

\* pd.concat(cleaned_frames) raises ValueError on an empty list
ConcatRaises(mero, kumari) == Len(mero) = 0 /\ Len(kumari) = 0

\* clean_and_merge() over the given raw tables: the table jobs_clean it
\* leaves, the length of the frame it returns, and whether it ended in an
\* exception.  With no raw row at all it returns an empty frame before writing.
CleanOutcome(mero, kumari, old) ==
    IF NoFrames(mero, kumari)
    THEN [table |-> old, saved |-> 0, raised |-> FALSE]
    ELSE IF ConcatRaises(mero, kumari)
    THEN [table |-> old, saved |-> 0, raised |-> TRUE]
    ELSE LET df == CleanFrame(mero, kumari)
         IN  [table |-> ToSqlReplace(old, df), saved |-> Len(df), raised |-> FALSE]

clean_and_merge ==
    LET out == CleanOutcome(merojob_raw, kumari_raw, jobs_clean)
    IN  /\ jobs_clean' = out.table
        /\ last' = [op |-> "clean_and_merge", saved |-> out.saved, rows_before |-> 0,
                    raised |-> out.raised]
        /\ UNCHANGED <<merojob_raw, kumari_raw, now>>

\* load_clean_jobs(): SELECT * FROM jobs_clean; when the read raises (the
\* table was never written) the consumer gets an empty DataFrame
load_clean_jobs(table) == IF table.exists THEN table.rows ELSE <<>>


(***************************************************************************)
(* scrape_kumari.py: card pass                                             *)
(*                                                                         *)
(* A card is what BeautifulSoup finds in it:                               *)
(*   jobid         the data-jobid attribute                                *)
(*   h5_text       get_text(strip=True) of the h5, NoElem without an h5    *)
(*   h5_href       href of the anchor inside the h5; NoElem without an     *)
(*                 anchor, NoAttr for an anchor without href               *)
(*   h6_text       text of the h6, or NoElem                               *)
(*   info_text     text of the .job-info element, or NoElem                *)
(*   info_href     its href attribute, or NoAttr                           *)
(*   company_name  text of .featured-job-company-name, or NoElem           *)
(*   logo_alt      alt of the img in .featured-job-company-logo, NoElem    *)
(*                 when the figure, the img or the attribute is missing    *)
(*   desc          texts of the li of ul.description (empty without one)   *)
(***************************************************************************)
NoElem == <<"NO ELEMENT">>
NoAttr == <<"NO ATTRIBUTE">>


sYear       == <<"Y","e","a","r">>
sFresher    == <<"F","r","e","s","h","e","r">>
sNrs        == <<"N","r","s",".">>
sNegotiable == <<"N","e","g","o","t","i","a","b","l","e">>

\* the loop over desc_ul.find_all('li'): <<salary, experience>> after it
RECURSIVE ScanDescription(_, _, _)
ScanDescription(lis, salary, experience) ==
    IF lis = <<>> THEN <<salary, experience>>
    ELSE LET text == Head(lis)
         IN  IF Contains(text, sYear) \/ Contains(text, sFresher)
             THEN ScanDescription(Tail(lis), salary, text)
             ELSE IF Contains(text, sNrs) \/ Contains(text, sNegotiable)
                  THEN ScanDescription(Tail(lis), text, experience)
                  ELSE ScanDescription(Tail(lis), salary, experience)

\* title / link / company by the two layout strategies (lines 45-72)
CardTitle(card) ==
    IF card.h5_text # NoElem THEN card.h5_text
    ELSE IF card.info_text # NoElem THEN card.info_text
    ELSE sNA

\* link_tag['href'] raises KeyError for an anchor without href
CardRaisesKeyError(card) == card.h5_text # NoElem /\ card.h5_href = NoAttr

CardLink(card) ==
    IF card.h5_text # NoElem
    THEN (IF card.h5_href # NoElem THEN card.h5_href ELSE sNA)
    ELSE IF card.info_text # NoElem
         THEN (IF card.info_href # NoAttr THEN card.info_href ELSE sNA)
         ELSE sNA

CardCompany(card) ==
    IF card.h5_text # NoElem
    THEN (IF card.h6_text # NoElem THEN card.h6_text ELSE sNA)
    ELSE IF card.info_text # NoElem
         THEN (IF card.company_name # NoElem THEN card.company_name
               ELSE IF card.logo_alt # NoElem THEN card.logo_alt
               ELSE sNA)
         ELSE sNA

\* "Skip if we have nothing useful"
CardSkipped(card) == CardTitle(card) = sNA /\ CardLink(card) = sNA

\* the dict built at lines 100-106
CardRecord(card) ==
    LET scan == ScanDescription(card.desc, sNA, sNA)
    IN  ("Job Title"  :> CardTitle(card)) @@
        ("Company"    :> CardCompany(card)) @@
        ("Link"       :> CardLink(card)) @@
        ("Salary"     :> scan[1]) @@
        ("Experience" :> scan[2])

\* a slip of the merge: the salary test copied to the experience line
MergeDuplicateSlip(current, incoming) ==
    LET c1 == IF current["Company"] = sNA /\ incoming["Company"] # sNA
              THEN [current EXCEPT !["Company"] = incoming["Company"]] ELSE current
        c2 == IF Get(c1, "Salary", sNA) = sNA /\ incoming["Salary"] # sNA
              THEN [c1 EXCEPT !["Salary"] = incoming["Salary"]] ELSE c1
    IN  IF Get(c2, "Salary", sNA) = sNA /\ incoming["Experience"] # sNA
        THEN [c2 EXCEPT !["Salary"] = incoming["Experience"]] ELSE c2

\* "Merge duplicate job IDs": lines 92-98 on current = jobs_map[job_id]
MergeDuplicate(current, incoming) ==
    LET c1 == IF current["Company"] = sNA /\ incoming["Company"] # sNA
              THEN [current EXCEPT !["Company"] = incoming["Company"]] ELSE current
        c2 == IF Get(c1, "Salary", sNA) = sNA /\ incoming["Salary"] # sNA
              THEN [c1 EXCEPT !["Salary"] = incoming["Salary"]] ELSE c1
    IN  IF Get(c2, "Experience", sNA) = sNA /\ incoming["Experience"] # sNA
        THEN [c2 EXCEPT !["Experience"] = incoming["Experience"]] ELSE c2

\* jobs_map as a sequence of [job_id, data] in dict insertion order
HasJob(map, job_id) == \E i \in 1..Len(map) : map[i].job_id = job_id
JobIndex(map, job_id) == CHOOSE i \in 1..Len(map) : map[i].job_id = job_id
JobData(map, job_id) == map[JobIndex(map, job_id)].data

NoMerge == [kind |-> "none"]

\* one iteration of "for card in job_cards" on a card that raises nothing
CardStep(card) ==
    /\ kpc = "cards"
    /\ ncards < MaxCards
    /\ ~CardRaisesKeyError(card)
    /\ ncards' = ncards + 1
    /\ IF CardSkipped(card)
       THEN /\ jobs_map' = jobs_map
            /\ merged' = NoMerge
       ELSE LET incoming == CardRecord(card)
            IN  IF HasJob(jobs_map, card.jobid)
                THEN LET current == JobData(jobs_map, card.jobid)
                         result  == MergeDuplicate(current, incoming)
                     IN  /\ jobs_map' = [jobs_map EXCEPT ![JobIndex(jobs_map, card.jobid)].data = result]
                         /\ merged' = [kind |-> "merge", existing |-> current,
                                       incoming |-> incoming, result |-> result]
                ELSE /\ jobs_map' = Append(jobs_map, [job_id |-> card.jobid, data |-> incoming])
                     /\ merged' = NoMerge
    /\ UNCHANGED <<merojob_raw, kumari_raw, jobs_clean, now, last, kpc, didx>>
    /\ UNCHANGED <<meroVars, pipeline, fetch, call>>

\* an iteration whose link_tag['href'] raises KeyError: "except AttributeError"
\* does not catch it, the outer "except Exception" returns 0 with nothing saved
CardStepRaises(card) ==
    /\ kpc = "cards"
    /\ ncards < MaxCards
    /\ CardRaisesKeyError(card)
    /\ kpc' = "failed"
    /\ ncards' = ncards + 1
    /\ merged' = NoMerge
    /\ last' = [op |-> "scrape_kumari_jobs", saved |-> 0, rows_before |-> Len(kumari_raw)]
    /\ UNCHANGED <<merojob_raw, kumari_raw, jobs_clean, now, jobs_map, didx>>
    /\ UNCHANGED <<meroVars, pipeline, fetch, call>>

\* the card loop ends; the detail loop starts at the first item
FinishCards ==
    /\ kpc = "cards"
    /\ kpc' = "detail"
    /\ didx' = 1
    /\ merged' = NoMerge
    /\ UNCHANGED <<merojob_raw, kumari_raw, jobs_clean, now, last, jobs_map, ncards>>
    /\ UNCHANGED <<meroVars, pipeline, fetch, call>>


(***************************************************************************)
(* scrape_kumari.py: detail pass                                           *)
(*                                                                         *)
(* A server outcome of one requests.get is a status code, or 0 for a       *)
(* requests.RequestException.  A detail page is its layout ("A": there are *)
(* .premium-info-card elements, "B": there are none but a ul.job-detail-box*)
(* exists, "none") and the (label, value) texts of its items in order;     *)
(* NoElem stands for a missing title/value sub-element.                    *)
(***************************************************************************)
Retries == 3

Outcomes == {200, 429, 500, 0}

\* fetch_with_retry at its first line: attempt index i, nothing requested yet
FetchStart == [i |-> 0, result |-> "running", requests |-> 0, slept |-> <<>>]

\* a loop bound that admits one attempt more than range(retries)
InRangeInclusive(i, retries) == i <= retries

\* "for i in range(retries)": the loop body runs for i = 0 .. retries-1
InRange(i, retries) == i < retries

\* a loop body whose 429 branch sleeps a flat 2 seconds
FetchIterFlat(st, outcome) ==
    LET req == [st EXCEPT !.requests = @ + 1]
    IN  IF outcome = 0
        THEN [req EXCEPT !.slept = Append(@, 1), !.i = @ + 1]
        ELSE IF outcome = 200
        THEN [req EXCEPT !.result = "Response"]
        ELSE IF outcome = 429
        THEN [req EXCEPT !.slept = Append(@, 2), !.i = @ + 1]
        ELSE [req EXCEPT !.i = @ + 1]

\* one pass of the loop body at attempt st.i, the server answering with outcome:
\* requests.get is issued; 200 returns r; 429 sleeps 2*(i+1); another status
\* falls through; a RequestException sleeps 1
FetchIter(st, outcome) ==
    LET req == [st EXCEPT !.requests = @ + 1]
    IN  IF outcome = 0
        THEN [req EXCEPT !.slept = Append(@, 1), !.i = @ + 1]
        ELSE IF outcome = 200
        THEN [req EXCEPT !.result = "Response"]
        ELSE IF outcome = 429
        THEN [req EXCEPT !.slept = Append(@, 2 * (st.i + 1)), !.i = @ + 1]
        ELSE [req EXCEPT !.i = @ + 1]

\* the loop is exhausted: return None
FetchGiveUp(st) == [st EXCEPT !.result = "None"]

\* fetch_with_retry: the loop from the state st on
RECURSIVE FetchFrom(_, _, _)
FetchFrom(outcomes, st, retries) ==
    IF st.result # "running" THEN st
    ELSE IF ~InRange(st.i, retries) THEN FetchGiveUp(st)
    ELSE FetchFrom(outcomes, FetchIter(st, outcomes[st.i + 1]), retries)

\* fetch_with_retry(link, retries=3) against a server answering outcomes[k]
\* to the k-th request
fetch_with_retry(outcomes) == FetchFrom(outcomes, FetchStart, Retries)

\* text.split(): the maximal runs of non-whitespace characters
RECURSIVE SplitWords(_, _)
SplitWords(text, cur) ==
    LET flush == IF cur = <<>> THEN <<>> ELSE <<cur>>
    IN  IF text = <<>> THEN flush
        ELSE IF Head(text) \in WS
             THEN flush \o SplitWords(Tail(text), <<>>)
             ELSE SplitWords(Tail(text), Append(cur, Head(text)))

\* " ".join(words)
RECURSIVE JoinWords(_)
JoinWords(words) ==
    IF words = <<>> THEN <<>>
    ELSE IF Len(words) = 1 THEN words[1]
    ELSE words[1] \o <<" ">> \o JoinWords(Tail(words))

CollapseSpaces(text) == JoinWords(SplitWords(text, <<>>))

sIndustry  == <<"I","n","d","u","s","t","r","y">>
sJobLevel  == <<"J","o","b"," ","L","e","v","e","l">>
sEducation == <<"E","d","u","c","a","t","i","o","n">>
sDesiredCandidate == <<"D","e","s","i","r","e","d"," ","C","a","n","d","i","d","a","t","e">>
sDesired   == <<"D","e","s","i","r","e","d">>
sExperience == <<"E","x","p","e","r","i","e","n","c","e">>

\* job_data[key] = value
SetItem(job_data, key, value) == (key :> value) @@ job_data

\* Layout A, one .premium-info-card: dispatch on the exact title text
InfoCard(job_data, item) ==
    IF item.label = NoElem \/ item.value = NoElem THEN job_data
    ELSE IF item.label = sIndustry         THEN SetItem(job_data, "Industry", item.value)
    ELSE IF item.label = sJobLevel         THEN SetItem(job_data, "Job Level", item.value)
    ELSE IF item.label = sEducation        THEN SetItem(job_data, "Education", item.value)
    ELSE IF item.label = sDesiredCandidate THEN SetItem(job_data, "Desired Candidate", item.value)
    ELSE IF item.label = sExperience       THEN SetItem(job_data, "Experience", item.value)
    ELSE job_data

\* Layout B, one li.row: dispatch on a substring of the label, value collapsed
DetailRow(job_data, item) ==
    IF item.label = NoElem \/ item.value = NoElem THEN job_data
    ELSE LET value == CollapseSpaces(item.value)
         IN  IF Contains(item.label, sIndustry)        THEN SetItem(job_data, "Industry", value)
             ELSE IF Contains(item.label, sJobLevel)   THEN SetItem(job_data, "Job Level", value)
             ELSE IF Contains(item.label, sEducation)  THEN SetItem(job_data, "Education", value)
             ELSE IF Contains(item.label, sDesired)    THEN SetItem(job_data, "Desired Candidate", value)
             ELSE IF Contains(item.label, sExperience) THEN SetItem(job_data, "Experience", value)
             ELSE job_data

RECURSIVE ApplyItems(_, _, _)
ApplyItems(job_data, items, layout) ==
    IF items = <<>> THEN job_data
    ELSE ApplyItems(IF layout = "A" THEN InfoCard(job_data, Head(items))
                    ELSE DetailRow(job_data, Head(items)),
                    Tail(items), layout)

\* lines 140-172: job_data after the detail page was parsed
ParseDetail(job_data, page) ==
    IF page.layout = "none" THEN job_data ELSE ApplyItems(job_data, page.items, page.layout)

\* an iteration of the detail loop on a job without a link: continue
DetailSkip ==
    /\ kpc = "detail"
    /\ didx <= Len(jobs_map)
    /\ jobs_map[didx].data["Link"] = sNA
    /\ didx' = didx + 1
    /\ UNCHANGED <<merojob_raw, kumari_raw, jobs_clean, now, last, kpc, jobs_map, ncards, merged>>
    /\ UNCHANGED <<meroVars, pipeline, fetch, call>>

\* a detail step that parses the page whatever fetch_with_retry returned
AfterDetailUnchecked(job_data, resp, page) == ParseDetail(job_data, page)

\* lines 139-172: "if resp and resp.status_code == 200" guards the parsing;
\* with resp = None the body is skipped and job_data is left as it was
AfterDetail(job_data, resp, page) ==
    IF resp.result = "Response" THEN ParseDetail(job_data, page) ELSE job_data

\* an iteration of the detail loop on a job with a link; fetch keeps the
\* call just made: the answers the server gave and the state it returned in
DetailFetch(outcomes, page) ==
    /\ kpc = "detail"
    /\ didx <= Len(jobs_map)
    /\ jobs_map[didx].data["Link"] # sNA
    /\ LET resp == fetch_with_retry(outcomes)
       IN  /\ jobs_map' = [jobs_map EXCEPT ![didx].data = AfterDetail(@, resp, page)]
           /\ fetch' = [outcomes |-> SubSeq(outcomes, 1, resp.requests), st |-> resp]
    /\ didx' = didx + 1
    /\ UNCHANGED <<merojob_raw, kumari_raw, jobs_clean, now, last, kpc, ncards, merged>>
    /\ UNCHANGED <<meroVars, pipeline, call>>

\* lines 177-179: save_kumari_data(jobs_map); return len(jobs_map)
SaveJobsMap(scraped_at) ==
    /\ kpc = "detail"
    /\ didx > Len(jobs_map)
    /\ save_kumari_data(jobs_map, scraped_at)
    /\ kpc' = "done"
    /\ UNCHANGED <<jobs_map, ncards, didx, merged>>
    /\ UNCHANGED <<meroVars, pipeline, fetch, call>>

\* lines 32-35 raise (requests.get / raise_for_status): return 0
MainPageFails ==
    /\ kpc = "start"
    /\ kpc' = "failed"
    /\ last' = [op |-> "scrape_kumari_jobs", saved |-> 0, rows_before |-> Len(kumari_raw)]
    /\ UNCHANGED <<merojob_raw, kumari_raw, jobs_clean, now, jobs_map, ncards, didx, merged>>
    /\ UNCHANGED <<meroVars, pipeline, fetch, call>>

\* lines 32-41: the main page is fetched and parsed, jobs_map = {}
MainPageFetched ==
    /\ kpc = "start"
    /\ kpc' = "cards"
    /\ jobs_map' = <<>>
    /\ ncards' = 0
    /\ UNCHANGED <<merojob_raw, kumari_raw, jobs_clean, now, last, didx, merged>>
    /\ UNCHANGED <<meroVars, pipeline, fetch, call>>


(***************************************************************************)
(* Inputs                                                                  *)
(***************************************************************************)
sEmpty     == <<>>
sNaLower   == <<"n","/","a">>
sDev       == <<"d","e","v">>
sDevUpper  == <<"D","E","V">>
sDevPadded == <<" ","d","e","v"," ">>
sQa        == <<"q","a">>
sAcme      == <<"A","c","m","e">>
sAcmePadded == <<" ","A","c","m","e"," ">>
sBeta      == <<"B","e","t","a">>
sId7       == <<"7">>
sId9       == <<"9">>
sLink7     == <<"/","j","o","b","/","7">>
sLink9     == <<"/","j","o","b","/","9">>
sTwoYears  == <<"2"," ","Y","e","a","r","s">>
sFiveYears == <<"5"," ","Y","e","a","r","s">>
sSalaryRange  == <<"N","r","s","."," ","9",",","9","9","9",",","9","9","9"," ","-"," ","1","5",",","0","0","0",",","0","0","0">>
sSalaryHuge   == <<"N","r","s","."," ","1","0",",","0","0","0",",","0","0","1">>
sSalaryAtCap  == <<"N","r","s","."," ","1","0",",","0","0","0",",","0","0","0">>
sIT        == <<"I","T">>
sITServices == <<"I","T"," "," ","S","e","r","v","i","c","e","s">>
sIndustryType == <<"I","n","d","u","s","t","r","y"," ","T","y","p","e">>

\* a dict of all_jobs as scrape_jobs builds it (every key present)
MeroJob(id, title, company, salary_min, salary_max) ==
    ("id" :> id) @@ ("title" :> title) @@ ("company" :> company) @@
    ("salary_min" :> salary_min) @@ ("salary_max" :> salary_max)

MeroJobs ==
    { MeroJob(PyInt(42), sDevPadded, sAcme, PyInt(9999999), PyInt(10000000)),
      MeroJob(PyInt(42), sQa, sAcmePadded, PyInt(15000000), PyInt(20000)),
      MeroJob(PyInt(7), sDevUpper, sAcme, PyInt(20000), PyInt(10000001)),
      MeroJob(PyInt(7), NULL, NULL, PyNone, PyStr(sNA)) }

\* an item of jobs_map as scrape_kumari_jobs builds it
KumariJob(job_id, title, company, link, salary, experience) ==
    [ job_id |-> job_id,
      data   |-> ("Job Title" :> title) @@ ("Company" :> company) @@ ("Link" :> link) @@
                 ("Salary" :> salary) @@ ("Experience" :> experience) ]

KumariJobs ==
    { KumariJob(sId7, sDev, sAcme, sLink7, sSalaryRange, sTwoYears),
      KumariJob(sId9, sDev, sAcme, sNA, sSalaryAtCap, sNA),
      KumariJob(sId9, sNaLower, sBeta, sLink9, sNegotiable, sNA),
      KumariJob(sId9, sEmpty, sEmpty, sLink9, sNA, sFiveYears) }

SeqsUpTo(S, n) == UNION {[1..k -> S] : k \in 1..n}

\* jobs_list of one save_merojob_data call
MeroBatches == SeqsUpTo(MeroJobs, MaxBatch)

\* jobs_dict.items() of one save_kumari_data call: the keys are distinct
KumariBatches ==
    {b \in SeqsUpTo(KumariJobs, MaxBatch) :
        \A i, j \in 1..Len(b) : i # j => b[i].job_id # b[j].job_id}

Card(jobid, h5_text, h5_href, h6_text, info_text, info_href, company_name, logo_alt, desc) ==
    [ jobid |-> jobid, h5_text |-> h5_text, h5_href |-> h5_href, h6_text |-> h6_text,
      info_text |-> info_text, info_href |-> info_href, company_name |-> company_name,
      logo_alt |-> logo_alt, desc |-> desc ]

Cards ==
    { Card(sId7, sDev, sLink7, sAcme, NoElem, NoAttr, NoElem, NoElem, <<sTwoYears, sSalaryRange>>),
      Card(sId7, sDev, NoElem, NoElem, NoElem, NoAttr, NoElem, NoElem, <<>>),
      Card(sId7, NoElem, NoElem, NoElem, sDev, sLink7, NoElem, sAcme, <<sNegotiable>>),
      Card(sId7, sQa, sLink9, sBeta, NoElem, NoAttr, NoElem, NoElem, <<sFiveYears, sSalaryAtCap>>),
      Card(sId9, sEmpty, sLink9, sEmpty, NoElem, NoAttr, NoElem, NoElem, <<sFresher>>),
      Card(sId9, NoElem, NoElem, NoElem, sQa, NoAttr, sBeta, NoElem, <<sSalaryHuge, sTwoYears>>),
      Card(sId9, NoElem, NoElem, NoElem, NoElem, NoAttr, NoElem, NoElem, <<>>),
      Card(sId9, sNA, NoElem, sAcme, NoElem, NoAttr, NoElem, NoElem, <<sTwoYears>>),
      Card(sId9, sQa, NoAttr, sBeta, NoElem, NoAttr, NoElem, NoElem, <<>>),
      Card(sId7, sEmpty, NoElem, sAcme, NoElem, NoAttr, NoElem, NoElem, <<sNegotiable>>) }

Item(label, value) == [label |-> label, value |-> value]

DetailPages ==
    { [layout |-> "A", items |-> <<Item(sIndustry, sIT), Item(sExperience, sFiveYears)>>],
      [layout |-> "A", items |-> <<Item(sExperience, sEmpty), Item(sJobLevel, NoElem)>>],
      [layout |-> "B", items |-> <<Item(sIndustryType, sITServices), Item(sExperience, sTwoYears)>>],
      [layout |-> "none", items |-> <<>>] }

\* what the server answers to the 1st, 2nd, ... request of one fetch_with_retry
\* call; one answer more than the call may ask for
FetchOutcomes == [1..(Retries + 1) -> Outcomes]

\* the same for a call of the detail loop, the answer past the budget fixed
DetailOutcomes == {o \in FetchOutcomes : o[Retries + 1] = 200}

(***************************************************************************)
(* The pipeline over the store: the two save calls and clean_and_merge     *)
(***************************************************************************)
\* the parts of the program that a specification leaves at rest
NoPipeline == [pc |-> "idle", invoked |-> <<>>, raised |-> {},
               mero_count |-> Unbound, kumari_count |-> Unbound, clean_count |-> Unbound]

NoFetch == [outcomes |-> <<>>, st |-> [FetchStart EXCEPT !.result = "idle"]]

NoCall == [fn |-> "none", arg |-> <<>>, result |-> <<>>]

StoreAfterSetup ==
    /\ merojob_raw = <<>>
    /\ kumari_raw = <<>>
    /\ jobs_clean = NoTable
    /\ now = 1
    /\ last = [op |-> "setup_database", saved |-> 0, rows_before |-> 0]

KumariIdle ==
    /\ kpc = "idle"
    /\ jobs_map = <<>>
    /\ ncards = 0
    /\ didx = 0
    /\ merged = NoMerge

MeroIdle ==
    /\ mpc = "idle"
    /\ url = NoUrl
    /\ all_jobs = <<>>
    /\ fetched = <<>>

Init ==
    /\ merojob_raw = <<>>
    /\ kumari_raw = <<>>
    /\ jobs_clean = NoTable
    /\ now = 1
    /\ last = [op |-> "setup_database", saved |-> 0, rows_before |-> 0]
    /\ kpc = "idle"
    /\ jobs_map = <<>>
    /\ ncards = 0
    /\ didx = 0
    /\ merged = NoMerge
    /\ MeroIdle
    /\ pipeline = NoPipeline
    /\ fetch = NoFetch
    /\ call = NoCall

RowsStored == Len(merojob_raw) + Len(kumari_raw)

SaveMerojob ==
    \E jobs_list \in MeroBatches, scraped_at \in ClockReadings :
        /\ RowsStored + Len(jobs_list) <= MaxRows
        /\ save_merojob_data(jobs_list, scraped_at)
        /\ UNCHANGED <<kpc, jobs_map, ncards, didx, merged>>
        /\ UNCHANGED <<meroVars, pipeline, fetch, call>>

SaveKumari ==
    \E items \in KumariBatches, scraped_at \in ClockReadings :
        /\ RowsStored + Len(items) <= MaxRows
        /\ save_kumari_data(items, scraped_at)
        /\ UNCHANGED <<kpc, jobs_map, ncards, didx, merged>>
        /\ UNCHANGED <<meroVars, pipeline, fetch, call>>

Reconcile ==
    /\ clean_and_merge
    /\ UNCHANGED <<kpc, jobs_map, ncards, didx, merged>>
    /\ UNCHANGED <<meroVars, pipeline, fetch, call>>

Next == SaveMerojob \/ SaveKumari \/ Reconcile

Spec == Init /\ [][Next]_vars

(***************************************************************************)
(* One run of scrape_kumari_jobs                                           *)
(***************************************************************************)
InitKumari ==
    /\ merojob_raw = <<>>
    /\ kumari_raw = <<>>
    /\ jobs_clean = NoTable
    /\ now = 1
    /\ last = [op |-> "setup_database", saved |-> 0, rows_before |-> 0]
    /\ kpc = "start"
    /\ jobs_map = <<>>
    /\ ncards = 0
    /\ didx = 0
    /\ merged = NoMerge
    /\ MeroIdle
    /\ pipeline = NoPipeline
    /\ fetch = NoFetch
    /\ call = NoCall

CardPass == \E card \in Cards : CardStep(card)

CardPassRaises == \E card \in Cards : CardStepRaises(card)

DetailPass == \E outcomes \in DetailOutcomes, page \in DetailPages : DetailFetch(outcomes, page)

SaveScraped == \E scraped_at \in ClockReadings : SaveJobsMap(scraped_at)

NextKumari ==
    \/ MainPageFails
    \/ MainPageFetched
    \/ CardPass
    \/ CardPassRaises
    \/ FinishCards
    \/ DetailSkip
    \/ DetailPass
    \/ SaveScraped

SpecKumari == InitKumari /\ [][NextKumari]_vars

(***************************************************************************)
(* merojob_scraper.py: one run of scrape_jobs                              *)
(*                                                                         *)
(* A page of the API is its "results" (job objects as parsed JSON) and its *)
(* "next" (a page url, or NoUrl for null / absent / empty).  Urls are      *)
(* numbered; the run starts at url 1.  fetched logs, per request, the url  *)
(* asked for and what came back.  The job objects are well-formed: their   *)
(* "client" and "offered_salary", when present, are objects.               *)
(***************************************************************************)
EmptyDict == <<>>

\* lines 45-49: the client's location, else the first job location's address
JobLocation(job) ==
    LET location == Get(Get(job, "client", EmptyDict), "location", sNA)
        job_locs == Get(job, "job_locations", <<>>)
    IN  IF (location = NULL \/ location = <<>> \/ location = sNA) /\ job_locs # <<>>
        THEN Get(job_locs[1], "address", sNA)
        ELSE location

\* lines 51-65: the record appended to all_jobs for one job object
ExtractJob(job) ==
    ("id" :> Get(job, "id", PyNone)) @@
    ("title" :> Get(job, "title", sNA)) @@
    ("company" :> Get(Get(job, "client", EmptyDict), "client_name", sNA)) @@
    ("salary_min" :> Get(Get(job, "offered_salary", EmptyDict), "minimum", PyStr(sNA))) @@
    ("salary_max" :> Get(Get(job, "offered_salary", EmptyDict), "maximum", PyStr(sNA))) @@
    ("location" :> JobLocation(job)) @@
    ("job_level" :> Get(job, "job_level", sNA))

\* an accumulation that puts the newest page's records first
AccumulateNewestFirst(jobs, results) ==
    [i \in 1..Len(results) |-> ExtractJob(results[i])] \o jobs

\* lines 43-65: "for job in data.get('results', [])": all_jobs.append(...)
Accumulate(jobs, results) ==
    jobs \o [i \in 1..Len(results) |-> ExtractJob(results[i])]

\* line 78: return len(all_jobs)
ScrapeJobsReturn == Len(all_jobs)

\* lines 31-32
ScrapeStart ==
    /\ mpc = "start"
    /\ mpc' = "loop"
    /\ url' = 1
    /\ all_jobs' = <<>>
    /\ fetched' = <<>>
    /\ UNCHANGED <<merojob_raw, kumari_raw, jobs_clean, now, last, kumariVars, pipeline, fetch, call>>

\* a loop test that also stops at a URL the run has already requested
WhileUrlUnseen(u) == u # NoUrl /\ \A k \in 1..Len(fetched) : fetched[k].url # u

\* line 34: "while url" is the truth value of url alone: None and '' end the
\* loop, any other value continues it
WhileUrl(u) == u # NoUrl

\* lines 34-70: the page at url is fetched and parsed; its records are
\* appended and url becomes its "next"
PageFetched(page) ==
    /\ mpc = "loop"
    /\ WhileUrl(url)
    /\ Len(fetched) < MaxPages
    /\ fetched' = Append(fetched, [url |-> url, ok |-> TRUE, results |-> page.results])
    /\ all_jobs' = Accumulate(all_jobs, page.results)
    /\ url' = page.next
    /\ UNCHANGED <<mpc, merojob_raw, kumari_raw, jobs_clean, now, last, kumariVars, pipeline, fetch, call>>

\* lines 35-41: requests.get, raise_for_status or response.json() raises: break
PageFails ==
    /\ mpc = "loop"
    /\ WhileUrl(url)
    /\ Len(fetched) < MaxPages
    /\ fetched' = Append(fetched, [url |-> url, ok |-> FALSE, results |-> <<>>])
    /\ mpc' = "after_loop"
    /\ UNCHANGED <<url, all_jobs, merojob_raw, kumari_raw, jobs_clean, now, last, kumariVars, pipeline, fetch, call>>

\* line 34: "while url" with url None or empty
LoopEnds ==
    /\ mpc = "loop"
    /\ ~WhileUrl(url)
    /\ mpc' = "after_loop"
    /\ UNCHANGED <<url, all_jobs, fetched, merojob_raw, kumari_raw, jobs_clean, now, last, kumariVars, pipeline, fetch, call>>

\* lines 72-74 and 78: save_merojob_data(all_jobs); return len(all_jobs)
SaveAllJobs(scraped_at) ==
    /\ mpc = "after_loop"
    /\ all_jobs # <<>>
    /\ save_merojob_data(all_jobs, scraped_at)
    /\ mpc' = "done"
    /\ UNCHANGED <<url, all_jobs, fetched, kumariVars, pipeline, fetch, call>>

\* lines 75-78: nothing was accumulated; return 0 without saving
NoJobsFound ==
    /\ mpc = "after_loop"
    /\ all_jobs = <<>>
    /\ mpc' = "done"
    /\ UNCHANGED <<url, all_jobs, fetched, merojob_raw, kumari_raw, jobs_clean, now, last, kumariVars, pipeline, fetch, call>>

(***************************************************************************)
(* scheduler.py: one run of full_pipeline                                  *)
(*                                                                         *)
(* A stage either returns or raises an Exception.  The scraper stages     *)
(* return the length of what they handed to save_*_data, or 0 when they    *)
(* found nothing (or caught their own failure) and saved nothing.          *)
(***************************************************************************)
Stages == <<"scrape_mero", "scrape_kumari", "clean_and_merge">>

\* the statement that follows a stage's try/except block
AfterStage(stage) ==
    IF stage = "scrape_mero" THEN "scrape_kumari"
    ELSE IF stage = "scrape_kumari" THEN "clean_and_merge"
    ELSE "summary"

CountOf(stage) ==
    IF stage = "scrape_mero" THEN "mero_count"
    ELSE IF stage = "scrape_kumari" THEN "kumari_count"
    ELSE "clean_count"

\* the try body completed: count = the stage's return value
StageReturned(p, stage, count) ==
    [p EXCEPT !.pc = AfterStage(stage),
              !.invoked = Append(@, stage),
              ![CountOf(stage)] = count]

\* a handler that lets the exception leave full_pipeline
StageRaisedAborts(p, stage) ==
    [p EXCEPT !.pc = "aborted",
              !.invoked = Append(@, stage),
              !.raised = @ \cup {stage}]

\* "except Exception as e": print, count = 0, go on with the next block
StageRaised(p, stage) ==
    [p EXCEPT !.pc = AfterStage(stage),
              !.invoked = Append(@, stage),
              !.raised = @ \cup {stage},
              ![CountOf(stage)] = 0]

\* lines 62-67, scrape_mero() saved jobs_list and returned its length
MeroStageSaves(jobs_list, scraped_at) ==
    /\ pipeline.pc = "scrape_mero"
    /\ Len(jobs_list) > 0
    /\ RowsStored + Len(jobs_list) <= MaxRows
    /\ save_merojob_data(jobs_list, scraped_at)
    /\ pipeline' = StageReturned(pipeline, "scrape_mero", Len(jobs_list))
    /\ UNCHANGED <<kumariVars, meroVars, fetch, call>>

\* lines 70-75, scrape_kumari() saved its jobs_map and returned its length
KumariStageSaves(items, scraped_at) ==
    /\ pipeline.pc = "scrape_kumari"
    /\ Len(items) > 0
    /\ RowsStored + Len(items) <= MaxRows
    /\ save_kumari_data(items, scraped_at)
    /\ pipeline' = StageReturned(pipeline, "scrape_kumari", Len(items))
    /\ UNCHANGED <<kumariVars, meroVars, fetch, call>>

\* a scraper stage that returns 0 having saved nothing
ScraperStageEmpty ==
    /\ pipeline.pc \in {"scrape_mero", "scrape_kumari"}
    /\ pipeline' = StageReturned(pipeline, pipeline.pc, 0)
    /\ UNCHANGED <<merojob_raw, kumari_raw, jobs_clean, now, last, kumariVars, meroVars, fetch, call>>

\* lines 78-84, df = clean_and_merge(); clean_count = len(df)
CleanStage ==
    /\ pipeline.pc = "clean_and_merge"
    /\ clean_and_merge
    /\ LET out == CleanOutcome(merojob_raw, kumari_raw, jobs_clean)
       IN  pipeline' = IF out.raised
                       THEN StageRaised(pipeline, "clean_and_merge")
                       ELSE StageReturned(pipeline, "clean_and_merge", out.saved)
    /\ UNCHANGED <<kumariVars, meroVars, fetch, call>>

\* the stage at pipeline.pc raises an Exception before it wrote anything
StageFails ==
    /\ pipeline.pc \in {Stages[i] : i \in 1..Len(Stages)}
    /\ pipeline' = StageRaised(pipeline, pipeline.pc)
    /\ UNCHANGED <<merojob_raw, kumari_raw, jobs_clean, now, last, kumariVars, meroVars, fetch, call>>

InitPipeline ==
    /\ StoreAfterSetup
    /\ KumariIdle
    /\ MeroIdle
    /\ fetch = NoFetch
    /\ call = NoCall
    /\ pipeline = [NoPipeline EXCEPT !.pc = Stages[1]]

MeroStage == \E jobs_list \in MeroBatches, scraped_at \in ClockReadings : MeroStageSaves(jobs_list, scraped_at)

KumariStage == \E items \in KumariBatches, scraped_at \in ClockReadings : KumariStageSaves(items, scraped_at)

NextPipeline ==
    \/ MeroStage
    \/ KumariStage
    \/ ScraperStageEmpty
    \/ StageFails
    \/ CleanStage

\* full_pipeline is straight-line code: once a stage has returned or raised,
\* the interpreter goes on to the next statement
SpecPipeline == InitPipeline /\ [][NextPipeline]_vars /\ WF_vars(NextPipeline)

(***************************************************************************)
(* One run of scrape_jobs                                                  *)
(***************************************************************************)
ApiJob(id, title, client_name, minimum, maximum) ==
    ("id" :> id) @@ ("title" :> title) @@ ("client" :> ("client_name" :> client_name)) @@
    ("offered_salary" :> (("minimum" :> minimum) @@ ("maximum" :> maximum)))

\* two job objects with the same id (the listing moved between two page
\* requests, or the API repeats it), and one without "client" and "title"
apiDev == ApiJob(PyInt(42), sDev, sAcme, PyInt(20000), PyInt(30000))

apiQa == ApiJob(PyInt(42), sQa, sBeta, PyNone, PyNone)

apiBare == ("id" :> PyInt(7))

ApiResults == { <<>>, <<apiDev>>, <<apiQa, apiBare>>, <<apiBare, apiDev>> }

Urls == 1..MaxPages

ApiPages == [results : ApiResults, next : Urls \cup {NoUrl}]

InitMero ==
    /\ StoreAfterSetup
    /\ KumariIdle
    /\ pipeline = NoPipeline
    /\ fetch = NoFetch
    /\ call = NoCall
    /\ mpc = "start"
    /\ url = NoUrl
    /\ all_jobs = <<>>
    /\ fetched = <<>>

FetchPage == \E page \in ApiPages : PageFetched(page)

SaveScrapedJobs == \E scraped_at \in ClockReadings : SaveAllJobs(scraped_at)

NextMero ==
    \/ ScrapeStart
    \/ FetchPage
    \/ PageFails
    \/ LoopEnds
    \/ SaveScrapedJobs
    \/ NoJobsFound

SpecMero == InitMero /\ [][NextMero]_vars

\* the same run against pages that differ in their "next" pointer and carry
\* no record or one record
ChainPages == [results : {<<>>, <<apiBare>>}, next : Urls \cup {NoUrl}]

FollowChain == \E page \in ChainPages : PageFetched(page)

NextChain ==
    \/ ScrapeStart
    \/ LoopEnds
    \/ PageFails
    \/ NoJobsFound
    \/ FollowChain
    \/ SaveScrapedJobs

\* the interpreter keeps executing scrape_jobs: requests.get(timeout=15)
\* returns or raises, and the statements after the loop run once it is left
SpecMeroFair == InitMero /\ [][NextChain]_vars /\ WF_vars(NextChain)

(***************************************************************************)
(* The field normalisers of clean_data.py.  They are pure functions: a      *)
(* behaviour is one application of one of them to one input.               *)
(***************************************************************************)
RECURSIVE Blanks(_)
Blanks(n) == IF n = 0 THEN <<>> ELSE <<" ">> \o Blanks(n - 1)

Pads == {Blanks(n) : n \in 0..MaxPad}

\* the texts of S with up to MaxPad blanks on either side
Padded(S) == {l \o x \o r : l \in Pads, r \in Pads, x \in S}

\* raw locations: every key of the mapping, other spellings, place names
\* outside it, placeholders; None is NULL
LocationInputs ==
    Padded(DOMAIN LocationMapping \cup
    { <<"k","T","M">>,
      <<"p","a","t","a","n">>,
      <<"K","A","T","H","M","A","N","D","U"," ","V","A","L","L","E","Y">>,
      <<"B","i","r","a","t","n","a","g","a","r">>,
      <<"P","o","k","h","a","r","a">>,
      <<"P","K","R",",">>,
      <<"n","/","a">>,
      <<"N","/","A">>,
      <<"N","A">>,
      <<"N","a">>,
      <<"n","a">>,
      <<>>,
      <<"U","n","k","n","o","w","n">>,
      <<"n","a","n">> }) \cup {NULL}

\* raw job levels: every keyword, values with keywords of several lists,
\* values with none, placeholders; None is NULL
LevelInputs ==
    Padded(EntryWords \cup MidWords \cup SeniorWords \cup ManagementWords \cup
    { <<"S","E","N","I","O","R">>,
      <<"J","u","n","i","o","r">>,
      <<"S","r","."," ","E","n","g","i","n","e","e","r">>,
      <<"S","e","n","i","o","r"," ","A","s","s","o","c","i","a","t","e">>,
      <<"J","u","n","i","o","r"," ","M","a","n","a","g","e","r">>,
      <<"L","e","a","d"," ","F","r","e","s","h","e","r">>,
      <<"H","e","a","d"," ","P","r","i","n","c","i","p","a","l">>,
      <<"M","i","d","-","S","e","n","i","o","r">>,
      <<"A","s","s","i","s","t","a","n","t"," ","M","a","n","a","g","e","r">>,
      <<"m","a","n","a","g","e","m","e","n","t">>,
      <<"M","a","n","a","g","e","m","e","n","t">>,
      <<"M","A","N","A","G","E","M","E","N","T">>,
      <<"E","x","e","c","u","t","i","v","e">>,
      <<"t","o","p"," ","l","e","v","e","l">>,
      <<"n","/","a">>,
      <<"N","/","A">>,
      <<"n","a">>,
      <<>>,
      <<"N","o","t"," ","S","p","e","c","i","f","i","e","d">>,
      <<"n","o","t"," ","s","p","e","c","i","f","i","e","d">>,
      <<"I","n","t","e","r","n","s","h","i","p">>,
      <<"D","o","c","t","o","r">>,
      <<"C","E","O"," ","/"," ","C","T","O">>,
      <<"G","r","a","d","u","a","t","e"," ","D","i","r","e","c","t","o","r">> }) \cup {NULL}

SalaryHeads == { <<>>, <<"N","r","s","."," ">> }

SalaryFirsts == { <<"2","0",",","0","0","0">>, <<"4","5",",","0","0","0">>, <<",">>, <<"5">>, <<"N","e","g","o","t","i","a","b","l","e">>, <<"1",",",",","2">> }

SalaryRests == { <<>>, <<" ","-"," ","3","0",",","0","0","0">>, <<" ","-"," ",",">>, <<" ","/"," ","7"," ","m","o","n","t","h","l","y">> }

\* raw salary texts: a head, a first part and a rest, each possibly without
\* a run of digits and commas; None is NULL
SalaryInputs ==
    Padded({h \o f \o r : h \in SalaryHeads, f \in SalaryFirsts, r \in SalaryRests}) \cup {NULL}

sBackendPadded == <<" ","b","a","c","k","e","n","d"," ","d","e","v","e","l","o","p","e","r"," ">>

\* raw titles and companies: text, blank text, the scrapers' "N/A", NULL
RawTitles == { sBackendPadded, sDev }

RawCompanies == Padded({ sEmpty, sAcme, sNA }) \cup {NULL}

\* rows of merojob_raw / kumari_raw as the save functions write them
RawMeroRows ==
    { MeroRow(MeroJob(PyInt(42), title, company, PyInt(20000), PyInt(30000)), 1) :
        title \in RawTitles, company \in RawCompanies }

RawKumariRows ==
    { KumariRow(sId7, KumariJob(sId7, title, company, sLink7, salary, sTwoYears).data, 1) :
        title \in RawTitles, company \in RawCompanies, salary \in {sSalaryRange, sNegotiable} }

Applied(fn, arg, result) == [fn |-> fn, arg |-> arg, result |-> result]

CallCleanLocation(loc) ==
    /\ call = NoCall
    /\ call' = Applied("clean_location", loc, clean_location(loc))
    /\ UNCHANGED <<merojob_raw, kumari_raw, jobs_clean, now, last, kumariVars, meroVars, pipeline, fetch>>

CallStandardizeJobLevel(level_str) ==
    /\ call = NoCall
    /\ call' = Applied("standardize_job_level", level_str, standardize_job_level(level_str))
    /\ UNCHANGED <<merojob_raw, kumari_raw, jobs_clean, now, last, kumariVars, meroVars, pipeline, fetch>>

\* lines 156-157: the two salary columns of one kumari row
CallExtractSalary(salary_str) ==
    /\ call = NoCall
    /\ call' = Applied("extract_salary", salary_str,
                       <<extract_salary_min(salary_str), extract_salary_max(salary_str)>>)
    /\ UNCHANGED <<merojob_raw, kumari_raw, jobs_clean, now, last, kumariVars, meroVars, pipeline, fetch>>

\* lines 125-143 on one row of merojob_raw
CallMeroClean(row) ==
    /\ call = NoCall
    /\ call' = Applied("mero_clean", row, MeroClean(row))
    /\ UNCHANGED <<merojob_raw, kumari_raw, jobs_clean, now, last, kumariVars, meroVars, pipeline, fetch>>

\* lines 146-164 on one row of kumari_raw
CallKumariClean(row) ==
    /\ call = NoCall
    /\ call' = Applied("kumari_clean", row, KumariClean(row))
    /\ UNCHANGED <<merojob_raw, kumari_raw, jobs_clean, now, last, kumariVars, meroVars, pipeline, fetch>>

InitNormalizer ==
    /\ StoreAfterSetup
    /\ KumariIdle
    /\ MeroIdle
    /\ pipeline = NoPipeline
    /\ fetch = NoFetch
    /\ call = NoCall

NormalizeLocation == \E loc \in LocationInputs : CallCleanLocation(loc)

NormalizeJobLevel == \E level_str \in LevelInputs : CallStandardizeJobLevel(level_str)

NormalizeSalary == \E salary_str \in SalaryInputs : CallExtractSalary(salary_str)

NormalizeMeroRow == \E row \in RawMeroRows : CallMeroClean(row)

NormalizeKumariRow == \E row \in RawKumariRows : CallKumariClean(row)

NextNormalizer ==
    \/ NormalizeLocation
    \/ NormalizeJobLevel
    \/ NormalizeSalary
    \/ NormalizeMeroRow
    \/ NormalizeKumariRow

SpecNormalizer == InitNormalizer /\ [][NextNormalizer]_vars

(***************************************************************************)
(* The description scan of one card, applied to one list of item texts     *)
(***************************************************************************)
MaxItems == 3

sFresherNegotiable == sFresher \o <<" ">> \o sNegotiable
sFullTime == <<"F","u","l","l"," ","T","i","m","e">>

\* li.get_text(strip=True) of the items of one ul.description
DescTexts == {sTwoYears, sFiveYears, sNegotiable, sSalaryRange, sFresherNegotiable, sFullTime}

DescLists == {<<>>} \cup SeqsUpTo(DescTexts, MaxItems)

\* lines 79-88 on one card: <<salary, experience>> after the loop
CallScanDescription(lis) ==
    /\ call = NoCall
    /\ call' = Applied("ScanDescription", lis, ScanDescription(lis, sNA, sNA))
    /\ UNCHANGED <<merojob_raw, kumari_raw, jobs_clean, now, last, kumariVars, meroVars, pipeline, fetch>>

InitScan ==
    /\ StoreAfterSetup
    /\ KumariIdle
    /\ MeroIdle
    /\ pipeline = NoPipeline
    /\ fetch = NoFetch
    /\ call = NoCall

NextScan == \E lis \in DescLists : CallScanDescription(lis)

SpecScan == InitScan /\ [][NextScan]_vars

(***************************************************************************)
(* One call of fetch_with_retry, one loop pass per step                    *)
(***************************************************************************)
InitFetch ==
    /\ StoreAfterSetup
    /\ KumariIdle
    /\ MeroIdle
    /\ pipeline = NoPipeline
    /\ call = NoCall
    /\ fetch \in {[outcomes |-> o, st |-> FetchStart] : o \in FetchOutcomes}

FetchAttempt ==
    /\ fetch.st.result = "running"
    /\ InRange(fetch.st.i, Retries)
    /\ fetch' = [fetch EXCEPT !.st = FetchIter(@, fetch.outcomes[fetch.st.i + 1])]
    /\ UNCHANGED <<merojob_raw, kumari_raw, jobs_clean, now, last, kumariVars, meroVars, pipeline, call>>

FetchExhausted ==
    /\ fetch.st.result = "running"
    /\ ~InRange(fetch.st.i, Retries)
    /\ fetch' = [fetch EXCEPT !.st = FetchGiveUp(@)]
    /\ UNCHANGED <<merojob_raw, kumari_raw, jobs_clean, now, last, kumariVars, meroVars, pipeline, call>>

NextFetch == FetchAttempt \/ FetchExhausted

\* the interpreter keeps executing the loop, and requests.get(timeout=10)
\* and time.sleep both return: a pass that can be taken is taken
SpecFetch == InitFetch /\ [][NextFetch]_vars /\ WF_vars(NextFetch)


(***************************************************************************)
(* Properties                                                              *)
(***************************************************************************)
IsPrefix(a, b) == Len(a) <= Len(b) /\ SubSeq(b, 1, Len(a)) = a

KeysUnique(table, Key(_)) ==
    \A i, j \in 1..Len(table) : i # j => Key(table[i]) # Key(table[j])

\* a stored key keeps the row first written under it
KeysKeepRow(table, tableNext, Key(_)) ==
    \A i \in 1..Len(table) : \A j \in 1..Len(tableNext) :
        Key(tableNext[j]) = Key(table[i]) => tableNext[j] = table[i]

\* C1: a raw table never holds two rows with the same (native id, scraped_at),
\* and persisting a record whose key is stored leaves the stored row as first
\* written, whatever the incoming record's other fields are.
NaturalKeyIdempotence ==
    /\ [](KeysUnique(merojob_raw, MeroKey) /\ KeysUnique(kumari_raw, KumariKey))
    /\ [][ /\ KeysKeepRow(merojob_raw, merojob_raw', MeroKey)
           /\ KeysKeepRow(kumari_raw, kumari_raw', KumariKey)
           /\ \A i \in 1..Len(merojob_raw) : \E j \in 1..Len(merojob_raw') :
                  MeroKey(merojob_raw'[j]) = MeroKey(merojob_raw[i])
           /\ \A i \in 1..Len(kumari_raw) : \E j \in 1..Len(kumari_raw') :
                  KumariKey(kumari_raw'[j]) = KumariKey(kumari_raw[i]) ]_vars

\* a save call met a key that was already stored: fewer rows were added than
\* records were offered
KeyCollisionIgnored ==
    /\ last.op \in {"save_merojob_data", "save_kumari_data"}
    /\ LET table == IF last.op = "save_merojob_data" THEN merojob_raw ELSE kumari_raw
       IN  Len(table) - last.rows_before < last.saved

\* C2: the raw tables are append-only: every step keeps every stored row, in
\* place and unchanged; clean_and_merge leaves both tables as they are and a
\* save only adds rows at the end.
RawAppendOnly ==
    [][ /\ IsPrefix(merojob_raw, merojob_raw')
        /\ IsPrefix(kumari_raw, kumari_raw')
        /\ last'.op = "clean_and_merge" =>
               (merojob_raw' = merojob_raw /\ kumari_raw' = kumari_raw) ]_vars

\* both tables hold rows of two ingestion timestamps and a reconcile has run
\* over them
RawKeptAcrossRuns ==
    /\ last.op = "clean_and_merge"
    /\ jobs_clean.exists
    /\ Len(kumari_raw) > 0
    /\ \E i, j \in 1..Len(merojob_raw) : merojob_raw[i].scraped_at # merojob_raw[j].scraped_at

\* "Placeholder" as the data model defines it: empty, whitespace-only, or
\* N/A / na / n/a in any case
LowerText(text) == [i \in 1..Len(text) |-> ToLower(text[i])]

IsPlaceholder(v) ==
    \/ Strip(v) = <<>>
    \/ LowerText(v) = <<"n","/","a">>
    \/ LowerText(v) = <<"n","a">>

CardFields == {"Job Title", "Company", "Link", "Salary", "Experience"}

\* C3: when a card is merged into the record stored under its id, every field
\* whose stored value is a placeholder and whose incoming value is not takes
\* the incoming value, and every field whose stored value is not a
\* placeholder keeps it.
MergeFillsGaps ==
    merged.kind = "merge" =>
        \A f \in CardFields :
            /\ (IsPlaceholder(merged.existing[f]) /\ ~IsPlaceholder(merged.incoming[f]))
                   => merged.result[f] = merged.incoming[f]
            /\ ~IsPlaceholder(merged.existing[f])
                   => merged.result[f] = merged.existing[f]

\* C4: over the card pass, the duplicate-card merges and the detail pass, a
\* field of a partial record that holds a non-placeholder value keeps that
\* value.
PartialRecordMonotone ==
    [][ \A i \in 1..Len(jobs_map) :
            (i <= Len(jobs_map') /\ jobs_map'[i].job_id = jobs_map[i].job_id) =>
                \A f \in DOMAIN jobs_map[i].data :
                    ~IsPlaceholder(jobs_map[i].data[f]) =>
                        /\ f \in DOMAIN jobs_map'[i].data
                        /\ jobs_map'[i].data[f] = jobs_map[i].data[f] ]_vars

\* C5: merging a record with an incoming record equal to it in every field
\* leaves the record as it was.
MergeIdempotent ==
    (merged.kind = "merge" /\ merged.incoming = merged.existing) =>
        merged.result = merged.existing

\* a card identical to the stored record was merged, the record having both a
\* placeholder and a non-placeholder field
MergedWithItself ==
    /\ merged.kind = "merge"
    /\ merged.incoming = merged.existing
    /\ \E f \in CardFields : merged.existing[f] = sNA
    /\ \E f \in CardFields : ~IsPlaceholder(merged.existing[f])

Reconciled == last.op = "clean_and_merge" /\ jobs_clean.exists

\* C6: after reconcile no two rows of the canonical table have the same job_id.
JobIdUnique ==
    Reconciled =>
        \A i, j \in 1..Len(jobs_clean.rows) : i # j => jobs_clean.rows[i].job_id # jobs_clean.rows[j].job_id

\* the rows that pass the title gate, in concatenation order, each labelled
\* with the source whose raw table it comes from
LabelMero(r)   == [MeroClean(r) EXCEPT !.source = sMerojob]
LabelKumari(r) == [KumariClean(r) EXCEPT !.source = sKumarijob]
Candidates ==
    TitleGate([i \in 1..Len(merojob_raw) |-> LabelMero(merojob_raw[i])]
              \o [i \in 1..Len(kumari_raw) |-> LabelKumari(kumari_raw[i])])

FirstOfTriple(df, i) == \A j \in 1..(i - 1) : DupKey(df[j]) # DupKey(df[i])

InCanonical(row) ==
    \E k \in 1..Len(jobs_clean.rows) :
        /\ jobs_clean.rows[k].job_id = row.job_id
        /\ jobs_clean.rows[k].title = row.title
        /\ jobs_clean.rows[k].company = row.company

\* C7: after reconcile no two canonical rows share (title, company, source),
\* and of the rows with one (title, company, source) the first in
\* concatenation order (MeroJob rows, then KumariJob rows, each in raw-table
\* order) is the one in the canonical table.
DedupKeepsFirstPerSource ==
    Reconciled =>
        /\ \A i, j \in 1..Len(jobs_clean.rows) : i # j => DupKey(jobs_clean.rows[i]) # DupKey(jobs_clean.rows[j])
        /\ \A i \in 1..Len(Candidates) :
               FirstOfTriple(Candidates, i) => InCanonical(Candidates[i])
        /\ Len(jobs_clean.rows) = Cardinality({i \in 1..Len(Candidates) : FirstOfTriple(Candidates, i)})

BeforeCap == DropDuplicates(TitleGate(ConcatFrames(merojob_raw, kumari_raw)))

CappedAs(before, after) ==
    /\ after = NaN \/ after <= SalaryCap
    /\ (before # NaN /\ before > SalaryCap) => after = NaN
    /\ (before = NaN \/ before <= SalaryCap) => after = before

\* C8: after reconcile every salary_min and salary_max is null or at most
\* 10,000,000: a value above 10,000,000 became null, the row's other salary
\* field decided on its own value, and a value up to and including
\* 10,000,000 is unchanged.
OutliersCapped ==
    Reconciled =>
        /\ Len(jobs_clean.rows) = Len(BeforeCap)
        /\ \A i \in 1..Len(jobs_clean.rows) :
               /\ CappedAs(BeforeCap[i].salary_min, jobs_clean.rows[i].salary_min)
               /\ CappedAs(BeforeCap[i].salary_max, jobs_clean.rows[i].salary_max)

\* a row with one field capped and the other kept, and a row holding exactly
\* 10,000,000
OneFieldCapped ==
    /\ Reconciled
    /\ \E i \in 1..Len(jobs_clean.rows) :
           /\ BeforeCap[i].salary_min > SalaryCap
           /\ jobs_clean.rows[i].salary_min = NaN
           /\ jobs_clean.rows[i].salary_max # NaN
    /\ \E i \in 1..Len(jobs_clean.rows) : jobs_clean.rows[i].salary_max = SalaryCap

\* C9: after reconcile no canonical row has a missing, blank or "N/A" title,
\* and every raw row whose normalised title is none of these and that is not
\* a duplicate (no earlier row of its source has its title and company) is in
\* the canonical table.
TitleGateExact ==
    Reconciled =>
        /\ \A k \in 1..Len(jobs_clean.rows) :
               /\ jobs_clean.rows[k].title # NULL
               /\ Strip(jobs_clean.rows[k].title) # <<>>
               /\ jobs_clean.rows[k].title # sNA
        /\ \A i \in 1..Len(Candidates) :
               FirstOfTriple(Candidates, i) => InCanonical(Candidates[i])

\* C10: the canonical table after reconcile is the frame computed from the
\* current raw tables alone (no table at all while no raw row was ever
\* stored), whatever the table held before.
FullRebuild ==
    last.op = "clean_and_merge" =>
        jobs_clean = IF Len(merojob_raw) = 0 /\ Len(kumari_raw) = 0
                     THEN NoTable
                     ELSE Table(CleanFrame(merojob_raw, kumari_raw))

\* a reconcile over raw rows of both sources and of two ingestion timestamps
\* that wrote at least two canonical rows
RebuiltFromBothSources ==
    /\ Reconciled
    /\ Len(jobs_clean.rows) >= 2
    /\ Len(merojob_raw) > 0
    /\ \E i, j \in 1..Len(kumari_raw) : kumari_raw[i].scraped_at # kumari_raw[j].scraped_at

\* the requests of one fetch_with_retry call that the server answers with 200
OkAttempts == {k \in 1..Retries : fetch.outcomes[k] = 200}

FetchSafe ==
    /\ fetch.st.requests <= Retries
    /\ fetch.st.result = "Response" =>
          /\ fetch.st.requests \in OkAttempts
          /\ \A k \in OkAttempts : fetch.st.requests <= k
    /\ fetch.st.result = "None" => OkAttempts = {}
    /\ (fetch.st.result # "running" /\ OkAttempts = {}) => fetch.st.result = "None"

\* C13: fetch_with_retry issues at most `retries` requests; it returns the
\* response of the first request answered with 200 and issues no request
\* after it; it returns None exactly when none of its attempts was answered
\* with 200 (a 429, another status and a transport failure all count as
\* failed attempts); and it terminates for every sequence of server outcomes.
FetchWithRetryContract == []FetchSafe /\ <>(fetch.st.result # "running")

\* a 429 on the first request, then a 200: the call returns after two requests
FetchRetriedThenOk ==
    /\ fetch.st.result = "Response"
    /\ fetch.st.requests = 2
    /\ fetch.outcomes[1] = 429

\* C11: when neither raw table has any row at reconciliation time, reconcile
\* raises no exception, and the canonical table that consumers read
\* afterwards is empty.
TotalDataAbsence ==
    (last.op = "clean_and_merge" /\ merojob_raw = <<>> /\ kumari_raw = <<>>) =>
        /\ ~last.raised
        /\ last.saved = 0
        /\ load_clean_jobs(jobs_clean) = <<>>

\* reconcile has run over two empty raw tables
ReconciledNothing ==
    /\ last.op = "clean_and_merge"
    /\ merojob_raw = <<>>
    /\ kumari_raw = <<>>
    /\ ~jobs_clean.exists

\* the stages that come before the position pc of full_pipeline
StagesBefore(pc) ==
    IF pc = "scrape_mero" THEN <<>>
    ELSE IF pc = "scrape_kumari" THEN SubSeq(Stages, 1, 1)
    ELSE IF pc = "clean_and_merge" THEN SubSeq(Stages, 1, 2)
    ELSE Stages

StagesInOrder ==
    /\ pipeline.pc \in {"scrape_mero", "scrape_kumari", "clean_and_merge", "summary"}
    /\ pipeline.invoked = StagesBefore(pipeline.pc)
    /\ \A stage \in pipeline.raised : pipeline[CountOf(stage)] = 0

\* C12: every pipeline run invokes the stages in the order ingest MeroJob,
\* ingest KumariJob, reconcile; when a stage raises its count is 0 and every
\* later stage is still invoked, so reconcile is invoked in every run.
StageIndependence ==
    /\ []StagesInOrder
    /\ <>(pipeline.pc = "summary" /\ pipeline.invoked = Stages)

\* a run in which both scraper stages raised and reconcile was still invoked
ReconcileAfterTwoFailures ==
    /\ pipeline.pc = "summary"
    /\ {"scrape_mero", "scrape_kumari"} \subseteq pipeline.raised
    /\ pipeline.invoked[3] = "clean_and_merge"
    /\ pipeline.mero_count = 0
    /\ pipeline.kumari_count = 0

\* the records of the pages of log, page after page, each page's in its order
RECURSIVE RecordsOf(_)
RecordsOf(log) ==
    IF log = <<>> THEN <<>>
    ELSE RecordsOf(SubSeq(log, 1, Len(log) - 1)) \o
         [i \in 1..Len(log[Len(log)].results) |-> ExtractJob(log[Len(log)].results[i])]

\* record i is the first of recs with its id
FirstWithId(recs, i) == \A k \in 1..(i - 1) : recs[k]["id"] # recs[i]["id"]

\* the position in merojob_raw of the row stored under the id of record e
StoredAt(e) == {k \in 1..Len(merojob_raw) : merojob_raw[k].id = Str(e["id"])}

\* C14: scrape_jobs follows "next" until it is empty or absent; when a page
\* fetch fails it requests no further page, and the records accumulated from
\* all earlier pages are still persisted and counted, in page-then-record
\* order (a record whose id was already stored by this run is counted, and
\* its id stays stored under the first record's row).
PartialResultsKept ==
    /\ \A i \in 1..Len(fetched) :
          ~fetched[i].ok => (i = Len(fetched) /\ mpc \in {"after_loop", "done"})
    /\ (mpc \in {"after_loop", "done"} /\ \A i \in 1..Len(fetched) : fetched[i].ok) => url = NoUrl
    /\ mpc \in {"loop", "after_loop", "done"} => all_jobs = RecordsOf(fetched)
    /\ mpc = "done" =>
          LET recs == RecordsOf(fetched)
          IN  /\ ScrapeJobsReturn = Len(recs)
              /\ recs # <<>> => last.op = "save_merojob_data" /\ last.saved = Len(recs)
              /\ \A i \in 1..Len(recs) : StoredAt(recs[i]) # {}
              /\ \A i, j \in 1..Len(recs) :
                    (i < j /\ FirstWithId(recs, i) /\ FirstWithId(recs, j)) =>
                        \E a \in StoredAt(recs[i]), b \in StoredAt(recs[j]) : a < b

\* two pages were fetched, the third request failed, and the records of the
\* first two pages are stored
SavedAfterFailedPage ==
    /\ mpc = "done"
    /\ Len(fetched) = 3
    /\ ~fetched[3].ok
    /\ fetched[1].results # <<>>
    /\ fetched[2].results # <<>>
    /\ Len(merojob_raw) = 2

\* the rows the finished scrape_jobs call added to merojob_raw
RowsAdded ==
    IF last.op = "save_merojob_data" THEN Len(merojob_raw) - last.rows_before ELSE 0

\* C16: scrape_jobs returns the number of jobs saved: the value it returns,
\* and the count save_merojob_data reports as "Saved N", equal the number of
\* rows the call added to merojob_raw, also when the API returned the same
\* job id more than once across the pages of the run.
ReturnedCountIsRowsAdded ==
    mpc = "done" =>
        /\ ScrapeJobsReturn = RowsAdded
        /\ last.op = "save_merojob_data" => last.saved = RowsAdded

\* C15: in the KumariJob card pass a card with a missing or malformed
\* sub-element (a title anchor without href, no company element) only has
\* the affected fields degraded to the placeholder: no card makes the run
\* fail, so the cards after it are extracted and the batch is persisted.
ExtractionNeverAborts == kpc = "failed" => ncards = 0

\* C17: the canonical company of a raw row of either source is its trimmed
\* raw company, and a missing, empty or whitespace-only raw company gives
\* "Unknown Company" (title " backend developer " with company "" gives
\* title "Backend Developer" and company "Unknown Company").
CompanyNormalized ==
    call.fn \in {"mero_clean", "kumari_clean"} =>
        call.result.company =
            IF call.arg.company = NULL \/ Strip(call.arg.company) = <<>>
            THEN sUnknownCompany
            ELSE Strip(call.arg.company)

\* the keyword groups in priority order, with the level each one gives
LevelGroups ==
    << [level |-> <<"E","n","t","r","y"," ","L","e","v","e","l">>,
        words |-> { <<"e","n","t","r","y">>,
                   <<"j","u","n","i","o","r">>,
                   <<"f","r","e","s","h","e","r">>,
                   <<"f","r","e","s","h">>,
                   <<"g","r","a","d","u","a","t","e">> }],
       [level |-> <<"M","i","d"," ","L","e","v","e","l">>,
        words |-> { <<"m","i","d">>,
                   <<"i","n","t","e","r","m","e","d","i","a","t","e">>,
                   <<"a","s","s","o","c","i","a","t","e">> }],
       [level |-> <<"S","e","n","i","o","r"," ","L","e","v","e","l">>,
        words |-> { <<"s","e","n","i","o","r">>,
                   <<"s","r",".">>,
                   <<"l","e","a","d">>,
                   <<"p","r","i","n","c","i","p","a","l">> }],
       [level |-> <<"M","a","n","a","g","e","m","e","n","t">>,
        words |-> { <<"m","a","n","a","g","e","r">>,
                   <<"h","e","a","d">>,
                   <<"d","i","r","e","c","t","o","r">>,
                   <<"v","p">>,
                   <<"c","h","i","e","f">>,
                   <<"c","e","o">>,
                   <<"c","t","o">> }] >>

FourLevels == {LevelGroups[g].level : g \in 1..Len(LevelGroups)}

\* the groups of which the value, read case-insensitively, contains a keyword
GroupsIn(value) ==
    {g \in 1..Len(LevelGroups) : \E w \in LevelGroups[g].words : Contains(LowerText(value), w)}

\* a value with a keyword gets the level of the earliest group it has a
\* keyword of
EarliestGroupWins ==
    (call.fn = "standardize_job_level" /\ call.arg # NULL /\ GroupsIn(call.arg) # {}) =>
        \E g \in GroupsIn(call.arg) :
            /\ \A h \in GroupsIn(call.arg) : g <= h
            /\ call.result = LevelGroups[g].level

\* C18: standardize_job_level classifies case-insensitively by substring with
\* first-match-wins priority Entry Level > Mid Level > Senior Level >
\* Management: a value containing keywords of several groups gets the level
\* of the earliest group, and a value containing none of the keywords never
\* gets one of these four levels.
JobLevelPriority ==
    /\ EarliestGroupWins
    /\ (call.fn = "standardize_job_level" /\ call.arg # NULL /\ GroupsIn(call.arg) = {}) =>
          call.result \notin FourLevels

\* C18, amended: as above, except that a value containing none of the
\* keywords gets one of the four levels exactly when its trimmed text is
\* "management" in any letter case, which passes through as "Management".
JobLevelPriorityOrManagement ==
    /\ EarliestGroupWins
    /\ (call.fn = "standardize_job_level" /\ call.arg # NULL /\ GroupsIn(call.arg) = {}) =>
          (call.result \in FourLevels <=>
              (LowerText(Strip(call.arg)) = <<"m","a","n","a","g","e","m","e","n","t">> /\ call.result = <<"M","a","n","a","g","e","m","e","n","t">>))

\* a value with a Senior keyword and a Mid keyword was classified Mid Level
SeniorAssociateIsMid ==
    /\ call.fn = "standardize_job_level"
    /\ call.arg # NULL
    /\ GroupsIn(call.arg) = {2, 3}
    /\ call.result = <<"M","i","d"," ","L","e","v","e","l">>

\* a character of a run: a digit or a comma
InRun(c) == IsDigit(c) \/ c = ","

\* the positions at which a maximal run of digits and commas starts
RunStarts(text) ==
    {a \in 1..Len(text) : InRun(text[a]) /\ (a = 1 \/ ~InRun(text[a - 1]))}

\* the maximal run that starts at position a
RunAt(text, a) ==
    LET b == CHOOSE e \in a..Len(text) :
                 /\ \A k \in a..e : InRun(text[k])
                 /\ (e = Len(text) \/ ~InRun(text[e + 1]))
    IN  SubSeq(text, a, b)

\* the n-th run from the left
NthRun(text, n) ==
    RunAt(text, CHOOSE a \in RunStarts(text) :
                    Cardinality({x \in RunStarts(text) : x < a}) = n - 1)

\* the number a run writes once its commas are removed; null for no digit
RunNumber(run) ==
    LET digits == SelectSeq(run, LAMBDA c : c # ",")
    IN  IF digits = <<>> THEN NaN ELSE DigitsValue(digits)

\* C19: from a salary text, salary_min is the number written by the first run
\* of digits and commas with its commas removed and salary_max the number
\* written by the second run, null when there is no such run; both are null
\* when the value is not a string; a run without digit (a lone comma) gives
\* null instead of raising.  "Nrs. 20,000 - 30,000" gives (20000, 30000),
\* "Nrs. 45,000" gives (45000, null), "Negotiable" gives (null, null).
SalaryParsing ==
    call.fn = "extract_salary" =>
        /\ call.arg = NULL => call.result = <<NaN, NaN>>
        /\ call.arg # NULL =>
              LET n == Cardinality(RunStarts(call.arg))
              IN  /\ call.result[1] = IF n >= 1 THEN RunNumber(NthRun(call.arg, 1)) ELSE NaN
                  /\ call.result[2] = IF n >= 2 THEN RunNumber(NthRun(call.arg, 2)) ELSE NaN
        /\ call.arg = <<"N","r","s","."," ","2","0",",","0","0","0"," ","-"," ","3","0",",","0","0","0">> => call.result = <<20000, 30000>>
        /\ call.arg = <<"N","r","s","."," ","4","5",",","0","0","0">> => call.result = <<45000, NaN>>
        /\ call.arg = <<"N","e","g","o","t","i","a","b","l","e">> => call.result = <<NaN, NaN>>

\* a text whose first run is a lone comma and whose second run is a number
LoneCommaThenNumber ==
    /\ call.fn = "extract_salary"
    /\ call.arg = <<","," ","-"," ","3","0",",","0","0","0">>
    /\ call.result = <<NaN, 30000>>

\* the abbreviations and the place each one stands for
Abbreviations ==
    (<<"K","T","M">> :> <<"K","a","t","h","m","a","n","d","u">>) @@
    (<<"K","t","m">> :> <<"K","a","t","h","m","a","n","d","u">>) @@
    (<<"k","t","m">> :> <<"K","a","t","h","m","a","n","d","u">>) @@
    (<<"K","a","t","h","m","a","n","d","u"," ","V","a","l","l","e","y">> :> <<"K","a","t","h","m","a","n","d","u">>) @@
    (<<"P","K","R">> :> <<"P","o","k","h","a","r","a">>) @@
    (<<"P","K","R",".">> :> <<"P","o","k","h","a","r","a">>) @@
    (<<"P","k","r">> :> <<"P","o","k","h","a","r","a">>) @@
    (<<"B","K","T">> :> <<"B","h","a","k","t","a","p","u","r">>) @@
    (<<"B","k","t">> :> <<"B","h","a","k","t","a","p","u","r">>) @@
    (<<"L","L","T">> :> <<"L","a","l","i","t","p","u","r">>) @@
    (<<"L","l","t">> :> <<"L","a","l","i","t","p","u","r">>) @@
    (<<"P","a","t","a","n">> :> <<"L","a","l","i","t","p","u","r">>) @@
    (<<"B","R","T">> :> <<"B","i","r","g","u","n","j">>) @@
    (<<"B","T","W">> :> <<"B","u","t","w","a","l">>)

\* missing, empty, whitespace-only, or n/a / na in any letter case
NoLocation(loc) ==
    \/ loc = NULL
    \/ Strip(loc) = <<>>
    \/ LowerText(Strip(loc)) \in { <<"n","/","a">>, <<"n","a">> }

\* placeholders give "Unknown" and a listed abbreviation, matched
\* case-sensitively after trimming, gives its place
PlaceholdersAndAbbreviations ==
    /\ (call.fn = "clean_location" /\ NoLocation(call.arg)) =>
          call.result = <<"U","n","k","n","o","w","n">>
    /\ (call.fn = "clean_location" /\ ~NoLocation(call.arg)
            /\ Strip(call.arg) \in DOMAIN Abbreviations) =>
          call.result = Abbreviations[Strip(call.arg)]

\* every KumariJob canonical row has location "Kathmandu"
KumariInKathmandu ==
    call.fn = "kumari_clean" => call.result.location = <<"K","a","t","h","m","a","n","d","u">>

\* C20: clean_location maps each listed abbreviation, matched
\* case-sensitively after trimming, to its place; any other non-placeholder
\* value is returned unchanged; a missing, empty or whitespace-only value and
\* n/a / na in any letter case give "Unknown"; and every KumariJob canonical
\* row has location "Kathmandu" whatever its raw content.
LocationMappingUnchanged ==
    /\ PlaceholdersAndAbbreviations
    /\ KumariInKathmandu
    /\ (call.fn = "clean_location" /\ ~NoLocation(call.arg)
            /\ Strip(call.arg) \notin DOMAIN Abbreviations) =>
          call.result = call.arg

\* C20, amended: as above, except that any other non-placeholder value is
\* returned trimmed, otherwise unchanged.
LocationMappingTrimmed ==
    /\ PlaceholdersAndAbbreviations
    /\ KumariInKathmandu
    /\ (call.fn = "clean_location" /\ ~NoLocation(call.arg)
            /\ Strip(call.arg) \notin DOMAIN Abbreviations) =>
          call.result = Strip(call.arg)

\* an abbreviation with blanks around it was mapped to its place
PaddedAbbreviationMapped ==
    /\ call.fn = "clean_location"
    /\ call.arg = <<" ","P","K","R","."," ">>
    /\ call.result = <<"P","o","k","h","a","r","a">>


(***************************************************************************)
(* The detail pass of scrape_kumari_jobs                                   *)
(***************************************************************************)
\* this step is an iteration of the detail loop that calls fetch_with_retry
DetailFetchTaken ==
    /\ kpc = "detail"
    /\ didx <= Len(jobs_map)
    /\ didx' = didx + 1
    /\ jobs_map[didx].data["Link"] # sNA

\* the call kept in f started from nothing: every request it counts was
\* answered in this call, it stopped at its first 200, and it gave up only
\* after Retries requests of its own
FreshBudget(f) ==
    /\ f.st.requests = Len(f.outcomes)
    /\ f.st.requests \in 1..Retries
    /\ \A k \in 1..(Len(f.outcomes) - 1) : f.outcomes[k] # 200
    /\ f.st.result = "Response" <=> f.outcomes[Len(f.outcomes)] = 200
    /\ f.st.result = "None" => f.st.requests = Retries

\* every job of jobs_map is stored, in order, with the fields it has
AllPersisted ==
    /\ Len(kumari_raw) = Len(jobs_map)
    /\ \A k \in 1..Len(jobs_map) :
          /\ kumari_raw[k].job_id = jobs_map[k].job_id
          /\ kumari_raw[k].job_title = jobs_map[k].data["Job Title"]
          /\ kumari_raw[k].company = jobs_map[k].data["Company"]
          /\ kumari_raw[k].link = jobs_map[k].data["Link"]
          /\ kumari_raw[k].salary = jobs_map[k].data["Salary"]
          /\ kumari_raw[k].experience = jobs_map[k].data["Experience"]

\* C21: when fetch_with_retry returns None for a job's detail page, the job's
\* record is left exactly as the card pass built it, the loop goes on to the
\* next job, and the job is saved with the others; every detail fetch, also
\* one that follows a failed one, is a call with its own three attempts; a
\* detail step touches no record but its own.
DetailFailureIsLocal ==
    /\ [](kpc = "done" => (didx > Len(jobs_map) /\ AllPersisted))
    /\ [][DetailFetchTaken =>
            /\ kpc' = "detail"
            /\ Len(jobs_map') = Len(jobs_map)
            /\ \A k \in 1..Len(jobs_map) : k # didx => jobs_map'[k] = jobs_map[k]
            /\ fetch'.st.result \in {"Response", "None"}
            /\ FreshBudget(fetch')
            /\ fetch'.st.result = "None" => jobs_map' = jobs_map]_vars

\* two jobs with links: the first got its detail fields, the fetch for the
\* second gave up after three requests, and both are stored
FailedItemPersisted ==
    /\ kpc = "done"
    /\ Len(jobs_map) = 2
    /\ jobs_map[1].data["Link"] # sNA
    /\ jobs_map[2].data["Link"] # sNA
    /\ "Industry" \in DOMAIN jobs_map[1].data
    /\ fetch.st.result = "None"
    /\ fetch.st.requests = Retries
    /\ DOMAIN jobs_map[2].data = {"Job Title", "Company", "Link", "Salary", "Experience"}
    /\ Len(kumari_raw) = 2
    /\ kumari_raw[2].link = jobs_map[2].data["Link"]


(***************************************************************************)
(* The sleeps of fetch_with_retry                                          *)
(***************************************************************************)
\* the sleep that the claim puts after the k-th attempt, as a sequence of
\* zero or one durations in seconds
SleepAfter(k, outcome) ==
    IF outcome = 429 THEN <<2 * k>>
    ELSE IF outcome = 0 THEN <<1>>
    ELSE <<>>

\* the sleeps after the attempts 1..n, in order
RECURSIVE Schedule(_, _)
Schedule(outcomes, n) ==
    IF n = 0 THEN <<>>
    ELSE Schedule(outcomes, n - 1) \o SleepAfter(n, outcomes[n])

\* C22: within one fetch_with_retry call the sleeps taken so far are exactly,
\* in order, 2*k seconds after each k-th attempt answered 429 and 1 second
\* after each attempt that failed at the transport level; an attempt answered
\* with 200 or with another status is followed by no sleep.  (The sleep also
\* follows the last attempt of the budget, after which the call returns None.)
BackoffSchedule ==
    fetch.st.slept = Schedule(fetch.outcomes, fetch.st.requests)

\* 429, transport failure, 429: the call slept 2, 1 and 6 seconds and gave up
BackoffTwoOneSix ==
    /\ fetch.st.result = "None"
    /\ fetch.outcomes[1] = 429 /\ fetch.outcomes[2] = 0 /\ fetch.outcomes[3] = 429
    /\ fetch.st.slept = <<2, 1, 6>>


(***************************************************************************)
(* The card pass of scrape_kumari_jobs                                     *)
(***************************************************************************)
\* C23: a card whose title and link are both placeholders (empty,
\* whitespace-only or N/A) is dropped and creates no partial record, under
\* either layout strategy: no record of jobs_map has a placeholder title
\* together with a placeholder link.
CardDropRule ==
    \A k \in 1..Len(jobs_map) :
        ~(IsPlaceholder(jobs_map[k].data["Job Title"]) /\ IsPlaceholder(jobs_map[k].data["Link"]))


(***************************************************************************)
(* The description scan                                                    *)
(***************************************************************************)
SalaryWords == {sNrs, sNegotiable}
ExperienceWords == {sYear, sFresher}

MatchesAny(text, words) == \E w \in words : Contains(text, w)

\* the text of the first item that contains one of the words, N/A without one
FirstMatch(lis, words) ==
    IF \E k \in 1..Len(lis) : MatchesAny(lis[k], words)
    THEN lis[CHOOSE k \in 1..Len(lis) :
                 /\ MatchesAny(lis[k], words)
                 /\ \A j \in 1..(k - 1) : ~MatchesAny(lis[j], words)]
    ELSE sNA

\* C24: for each card, experience is the text of the first description item
\* containing "Year" or "Fresher" and salary is the text of the first item
\* containing "Nrs." or "Negotiable"; a later matching item changes nothing,
\* and an item with a keyword of both kinds counts for both fields.
DescriptionFirstMatchWins ==
    call.fn = "ScanDescription" =>
        call.result = <<FirstMatch(call.arg, SalaryWords), FirstMatch(call.arg, ExperienceWords)>>


(***************************************************************************)
(* The fallbacks of standardize_job_level                                  *)
(***************************************************************************)
\* a placeholder in the sense of the claim: missing, empty, whitespace-only,
\* or n/a / na in any letter case, with or without blanks around it
IsLevelPlaceholder(v) ==
    \/ v = NULL
    \/ Strip(v) = <<>>
    \/ LowerText(Strip(v)) \in {<<"n","/","a">>, <<"n","a">>}

\* the call was made on a value that contains none of the level keywords
NoKeywordCall ==
    /\ call.fn = "standardize_job_level"
    /\ (call.arg = NULL \/ GroupsIn(call.arg) = {})

\* C25: for a value containing none of the level keywords,
\* standardize_job_level returns "Not Specified" when the value is a
\* placeholder or "not specified", and the trimmed, title-cased text
\* otherwise; the result is never the empty string or "N/A".
JobLevelFallbacks ==
    NoKeywordCall =>
        /\ IF IsLevelPlaceholder(call.arg)
              \/ LowerText(call.arg) = <<"n","o","t"," ","s","p","e","c","i","f","i","e","d">>
           THEN call.result = <<"N","o","t"," ","S","p","e","c","i","f","i","e","d">>
           ELSE call.result = Title(Strip(call.arg))
        /\ call.result \notin {<<>>, <<"N","/","A">>}


(***************************************************************************)
(* Termination of the pagination loop of scrape_jobs                       *)
(***************************************************************************)
\* lines 72-78 have run: the accumulated records were handed to
\* save_merojob_data (when there are any) and scrape_jobs returned
ReachedPersistence == mpc = "done"

\* the loop is about to request a URL that this run has already fetched
Revisiting ==
    /\ mpc = "loop"
    /\ \E k \in 1..Len(fetched) : fetched[k].ok /\ fetched[k].url = url

\* the loop is left only at an empty "next" or by a failed fetch
ExitOnlyAtEndOrFailure ==
    [][(mpc = "loop" /\ mpc' # "loop") =>
          \/ url = NoUrl
          \/ (Len(fetched') = Len(fetched) + 1 /\ ~fetched'[Len(fetched')].ok)]_vars

\* C26: scrape_jobs stops fetching and reaches persistence whenever the
\* chain of "next" pointers ends in an empty pointer or a page fetch fails;
\* it terminates on every chain that does not return to a URL already
\* fetched; and nothing else ends the loop (no page bound, no revisit
\* detection), so that while every fetch succeeds with a non-empty "next"
\* the run stays in the loop with nothing persisted.
PaginationTermination ==
    /\ (mpc = "loop" /\ url = NoUrl) ~> ReachedPersistence
    /\ (mpc = "after_loop") ~> ReachedPersistence
    /\ <>(ReachedPersistence \/ Revisiting)
    /\ ExitOnlyAtEndOrFailure
    /\ [](mpc = "loop" => merojob_raw = <<>>)
    /\ []((ReachedPersistence /\ all_jobs # <<>>) => merojob_raw # <<>>)

\* two pages were fetched, the second had no "next", and the records of both
\* were persisted
ChainEndedAndPersisted ==
    /\ ReachedPersistence
    /\ url = NoUrl
    /\ Len(fetched) = 2
    /\ fetched[1].ok /\ fetched[2].ok
    /\ fetched[1].url # fetched[2].url
    /\ merojob_raw # <<>>
====
